---- MODULE Spec2Model ----
(***************************************************************************)
(* DentalFlow API: the data-consistency and mutation layer.               *)
(*                                                                         *)
(* The store is a set of collections (roles, usuarios, citas, pacientes,  *)
(* procedimientos, historias_clinicas, ordenes_laboratorio).  Each route  *)
(* handler is one action; `resp` holds the HTTP answer of the handler     *)
(* that produced the current state together with the request it answered. *)
(*                                                                         *)
(* Conventions                                                             *)
(*   - a generated identifier (ObjectId) is a positive number; the value  *)
(*     a client sends is a record [t, v]: t = "str" a well-formed 24-hex  *)
(*     string denoting ObjectId v, t = "bad" a malformed string,          *)
(*     t = "oid" an ObjectId instance, t = "none" an absent field;        *)
(*   - an absent string field is "" (the handlers test truthiness);       *)
(*   - dates (createdAt, updatedAt, fecha) are not modelled: no guard     *)
(*     reads them.                                                         *)
(***************************************************************************)
EXTENDS Integers, Sequences, FiniteSets, TLC

VARIABLES
    roles,          \* collection "roles": set of [_id, nombre]
    usuarios,       \* collection "usuarios": set of user documents
    nextRol,        \* next ObjectId the store generates for a role
    nextUsuario,    \* next ObjectId the store generates for a user
    nrIn,           \* normalizeRole: the payload of the last call
    nrOut,          \* normalizeRole: the record the last call returned
    citas,          \* collection "citas": set of appointment documents
    nextCita,       \* next ObjectId the store generates for an appointment
    pacientes,      \* collection "pacientes": set of patient documents
    procedimientos, \* collection "procedimientos": set of procedure types
    nextProc,       \* next ObjectId the store generates for a procedure type
    historias,      \* collection "historias_clinicas"
    nextHistoria,   \* next ObjectId the store generates for a history
    ordenes,        \* collection "ordenes_laboratorio"
    nextOrden,      \* next ObjectId the store generates for a lab order
    env,            \* process.env: [API_KEY, ENABLE_API_KEY] ("" is unset)
    hdr,            \* x-api-key header of the request last received ("" is none)
    now,            \* the clock new Date() reads
    inflight,       \* handlers suspended at a store call: set of requests
    proc,           \* lib/mongo.js module state of the server process
    resp            \* the last request and its response

userVars   == <<roles, usuarios, nextRol, nextUsuario>>
normVars   == <<nrIn, nrOut>>
citaVars   == <<citas, nextCita>>
gateVars   == <<pacientes, procedimientos, nextProc>>
histVars   == <<historias, nextHistoria>>
labVars    == <<ordenes, nextOrden>>
clinicVars == <<citaVars, gateVars, histVars, labVars>>

runVars    == <<env, hdr, now, inflight, proc>>

vars == <<userVars, normVars, clinicVars, runVars, resp>>

\* lib/mongo.js after one completed connect(): the handle is set, one client
\* was constructed, the indexes were provisioned once
Connected == [db |-> TRUE, clients |-> 1, provisions |-> 1, calls |-> 1,
              uq_roles_nombre |-> TRUE]

\* no key configured, no request received, no handler suspended
RunInit == env = [API_KEY |-> "", ENABLE_API_KEY |-> ""] /\ hdr = "" /\ now = 0
              /\ inflight = {} /\ proc = Connected

(***************************************************************************)
(* Bounds                                                                  *)
(***************************************************************************)
\* role documents ever inserted after the seed (POST /roles)
MaxRolesCreated == 1
\* user documents ever inserted (POST /usuarios)
MaxUsuarios == 1
\* appointment documents ever inserted (POST /citas)
MaxCitas == 1
\* largest ObjectId the store generates for a procedure type
MaxProcOid == 2
\* longest nested array (procedimientos_realizados, productos) the requests build
MaxLen == 3
\* documents ever inserted into historias_clinicas and ordenes_laboratorio
\* together
MaxDocs == 1
\* the clock stops at MaxNow
MaxNow == 2
\* handlers suspended at an await at the same time
MaxInflight == 2

(***************************************************************************)
(* lib/roles.js, lib/validate.js: the closed role enumeration              *)
(***************************************************************************)
ROLE_NAMES == <<"Administrador", "Odontologo", "Asistente", "Laboratorista">>

RoleNameSet == {ROLE_NAMES[i] : i \in 1..Len(ROLE_NAMES)}

\* z.enum([...]) in validate.js and routes/roles.js: the same four names
RolEnum == {"Administrador", "Odontologo", "Asistente", "Laboratorista"}

\* identifiers as a client sends them / as a document stores them
NoId       == [t |-> "none", v |-> 0]
BadId      == [t |-> "bad",  v |-> 0]
StrId(n)   == [t |-> "str",  v |-> n]
ObjId(n)   == [t |-> "oid",  v |-> n]

\* number of seeded roles, and the largest role id the store hands out
NumSeed    == Len(ROLE_NAMES)
MaxRolOid  == NumSeed + MaxRolesCreated
\* a well-formed identifier the store never generated
UnknownOid == MaxRolOid + 1

\* OidStr = z.string().regex(/^[0-9a-fA-F]{24}$/)
OidStr(id) == id.t = "str"

\* oidMaybe(id): new ObjectId(id), null (0) when it throws
oidMaybe(id) == IF id.t \in {"str", "oid"} THEN id.v ELSE 0

\* normalizeRole's parseOid: a string is parsed, an ObjectId kept, else null (0)
parseOid(id) == IF id.t \in {"str", "oid"} THEN id.v ELSE 0

\* db.collection("roles").findOne({_id: rid}) / findOne({nombre})
\* (nombre carries a unique index, _id is the primary key: at most one match)
RoleById_none(cat, rid)   == {}
RoleByName_none(cat, nom) == {}
RoleById(cat, rid)   == {r \in cat : r._id = rid}
RoleByName(cat, nom) == {r \in cat : r.nombre = nom}
TheOne(S)            == CHOOSE r \in S : TRUE

(***************************************************************************)
(* lib/roles.js normalizeRole(db, payload)                                 *)
(***************************************************************************)
\* mutant: with both fields present the name is resolved first and wins
normalizeRole_nameWins(cat, p) ==
    LET hasRol == p.rol # ""
        hasId  == p.rol_id.t # "none"
        rid    == parseOid(p.rol_id)
        byId   == IF rid # 0 THEN RoleById(cat, rid) ELSE {}
        byName == RoleByName(cat, p.rol)
    IN  IF hasId /\ ~hasRol
        THEN IF byId # {} THEN [p EXCEPT !.rol = TheOne(byId).nombre] ELSE p
        ELSE IF hasRol /\ ~hasId
        THEN IF p.rol \notin RoleNameSet THEN p
             ELSE IF byName # {}
                  THEN [p EXCEPT !.rol_id = ObjId(TheOne(byName)._id)]
                  ELSE p
        ELSE IF hasRol /\ hasId
        THEN IF p.rol \in RoleNameSet /\ byName # {}
             THEN [p EXCEPT !.rol_id = ObjId(TheOne(byName)._id)]
             ELSE IF byId # {}
                  THEN [p EXCEPT !.rol = TheOne(byId).nombre]
                  ELSE p
        ELSE p

normalizeRole(cat, p) ==
    LET hasRol == p.rol # ""
        hasId  == p.rol_id.t # "none"
        rid    == parseOid(p.rol_id)
        byId   == IF rid # 0 THEN RoleById(cat, rid) ELSE {}
        byName == RoleByName(cat, p.rol)
    IN  IF hasId /\ ~hasRol
        THEN \* solo rol_id
             IF byId # {} THEN [p EXCEPT !.rol = TheOne(byId).nombre] ELSE p
        ELSE IF hasRol /\ ~hasId
        THEN \* solo rol (nombre)
             IF p.rol \notin RoleNameSet THEN p
             ELSE IF byName # {}
                  THEN [p EXCEPT !.rol_id = ObjId(TheOne(byName)._id)]
                  ELSE p
        ELSE IF hasRol /\ hasId
        THEN \* vienen ambos
             IF byId # {}
             THEN [p EXCEPT !.rol = TheOne(byId).nombre]
             ELSE IF p.rol \in RoleNameSet /\ byName # {}
                  THEN [p EXCEPT !.rol_id = ObjId(TheOne(byName)._id)]
                  ELSE p
        ELSE p

(***************************************************************************)
(* lib/roles.js ensureRolesSeed: the catalog after the first connect()     *)
(***************************************************************************)
SeedDescripcion(nombre) ==
    IF nombre = "Administrador" THEN "Gestion del sistema"
    ELSE IF nombre = "Odontologo" THEN "Atencion clinica"
    ELSE IF nombre = "Asistente" THEN "Apoyo a operacion"
    ELSE "Laboratorio"

\* the documents insertMany(docs) stores when the store hands out the
\* identifiers first + 1, first + 2, ...
SeedDocs(first) ==
    {[_id |-> first + i, nombre |-> ROLE_NAMES[i],
      descripcion |-> SeedDescripcion(ROLE_NAMES[i]), permisos |-> <<>>] : i \in 1..NumSeed}

SeededRoles == SeedDocs(0)

(***************************************************************************)
(* Specification SpecNormalize: normalizeRole as a pure function           *)
(***************************************************************************)
\* the catalogs a run of role deletions can leave behind
NrCatalogs == SUBSET SeededRoles

NrRolIds == {NoId, BadId} \cup {StrId(n) : n \in 1..UnknownOid}
                          \cup {ObjId(n) : n \in 1..UnknownOid}

\* "Otro" is a name outside the closed enumeration
NrPayloads == [rol : RoleNameSet \cup {"", "Otro"}, rol_id : NrRolIds,
               nombres : {"", "Ana"}]

NoPayload == [rol |-> "", rol_id |-> NoId, nombres |-> ""]

NrInit ==
    /\ roles \in NrCatalogs
    /\ usuarios = {}
    /\ nextRol = NumSeed + 1
    /\ nextUsuario = 1
    /\ nrIn = NoPayload
    /\ nrOut = NoPayload
    /\ citas = {} /\ nextCita = 1
    /\ pacientes = {}
    /\ procedimientos = {} /\ nextProc = 1
    /\ historias = {} /\ nextHistoria = 1
    /\ ordenes = {} /\ nextOrden = 1
    /\ RunInit
    /\ resp = [op |-> "init"]

NormalizeCall ==
    \E p \in NrPayloads :
        /\ nrIn' = p
        /\ nrOut' = normalizeRole(roles, p)
        /\ resp' = [op |-> "normalizeRole"]
        /\ UNCHANGED <<roles, usuarios, nextRol, nextUsuario, clinicVars, runVars>>

NrNext == NormalizeCall

SpecNormalize == NrInit /\ [][NrNext]_vars

\* C3: when rol and rol_id are both present and rol_id resolves, the returned
\* rol is the catalog name of rol_id and rol_id is returned as supplied.
C3_IdWins ==
    (resp.op = "normalizeRole" /\ nrIn.rol # "" /\ nrIn.rol_id.t # "none"
        /\ RoleById(roles, parseOid(nrIn.rol_id)) # {})
    => /\ nrOut.rol = TheOne(RoleById(roles, parseOid(nrIn.rol_id))).nombre
       /\ nrOut.rol_id = nrIn.rol_id
       /\ nrOut.nombres = nrIn.nombres

\* a stale name sent with a resolving identifier has been overwritten
C3_Witness ==
    /\ resp.op = "normalizeRole"
    /\ nrIn.rol = "Asistente" /\ nrIn.rol_id = StrId(2)
    /\ RoleById(roles, 2) # {} /\ RoleByName(roles, "Asistente") # {}
    /\ nrOut.rol = "Odontologo" /\ nrOut.rol_id = StrId(2)

(***************************************************************************)
(* controllers/usuariosController.js, routes/roles.js                      *)
(* Specification SpecUsers: users and the role catalog                     *)
(***************************************************************************)
\* especialidad as a request carries it: absent, a string, or an array
EspAbsent   == [k |-> "absent", v |-> <<>>]
EspStr(s)   == [k |-> "str", v |-> <<s>>]
EspArr(a)   == [k |-> "arr", v |-> a]
EspInputs   == {EspAbsent, EspStr("Ortodoncia"), EspArr(<<>>)}

\* role names the modelled clients send ("" = field absent), and the seeded
\* roles of those names
RolInputs   == {"", "Odontologo", "Asistente"}
ClientSeedOids == {i \in 1..NumSeed : ROLE_NAMES[i] \in RolInputs}

\* role identifiers a client sends: those of the roles above, of any role
\* created after the seed, and one the store never generated
ClientRolOids == ClientSeedOids \cup ((NumSeed + 1)..(nextRol - 1)) \cup {UnknownOid}
ClientRolIds  == {NoId, BadId} \cup {StrId(n) : n \in ClientRolOids}

UnknownUsuario == MaxUsuarios + 1
PathUsuarioIds == {BadId} \cup {StrId(n) : n \in 1..UnknownUsuario}

\* usuarioSchemaCreate.superRefine: especialidad present and non-blank
EspOk(e) ==
    \/ e.k = "arr" /\ Len(e.v) > 0
    \/ e.k = "str" /\ e.v[1] # ""

\* usuarioSchemaCreate.parse(body) succeeds
usuarioSchemaCreate(b) ==
    /\ b.rol \in RolEnum
    /\ (b.rol_id.t = "none" \/ OidStr(b.rol_id))
    /\ (b.rol = "Odontologo" => EspOk(b.especialidad))

\* usuarioSchemaPatch.parse(body) succeeds
usuarioSchemaPatch(b) ==
    /\ (b.rol = "" \/ b.rol \in RolEnum)
    /\ (b.rol_id.t = "none" \/ OidStr(b.rol_id))
    /\ (b.rol # "" \/ b.rol_id.t # "none" \/ b.especialidad.k # "absent")

\* crearUsuario: especialidad stored as an array
EspCreate(e) ==
    IF e.k = "arr" THEN e.v
    ELSE IF e.k = "str" /\ e.v[1] # "" THEN e.v
    ELSE <<>>

\* actualizarUsuario: especialidad written when the patch carries it
EspPatch(e) == e.v

\* request bodies (the fields no guard reads, nombres, apellidos, correo,
\* estado, direccion and telefono, are left out of bodies and documents)
UserBodies == [userId : {"ext1"}, rol : RolInputs,
               rol_id : ClientRolIds, especialidad : EspInputs]

PatchBodies == [userId : {"", "ext1"}, rol : RolInputs,
                rol_id : ClientRolIds, especialidad : EspInputs]

\* the part of a body normalizeRole reads
RolePayload(b) == [rol |-> b.rol, rol_id |-> b.rol_id, nombres |-> ""]

\* POST /api/usuarios
crearUsuario ==
    \E b \in UserBodies :
        IF ~usuarioSchemaCreate(b)
        THEN /\ resp' = [op |-> "crearUsuario", status |-> 400]
             /\ UNCHANGED <<roles, usuarios, nextRol, nextUsuario, nrIn, nrOut, clinicVars, runVars>>
        ELSE LET withRole == normalizeRole(roles, RolePayload(b))
                 doc == [_id |-> nextUsuario, userId |-> b.userId,
                         rol |-> withRole.rol, rol_id |-> withRole.rol_id,
                         especialidad |-> EspCreate(b.especialidad)]
             IN  /\ nextUsuario <= MaxUsuarios
                 /\ usuarios' = usuarios \cup {doc}
                 /\ nextUsuario' = nextUsuario + 1
                 /\ resp' = [op |-> "crearUsuario", status |-> 201]
                 /\ UNCHANGED <<roles, nextRol, nrIn, nrOut, clinicVars, runVars>>

\* col.updateOne(filter, ...): the first document the filter matches
MatchUsuario(b, id) ==
    IF b.userId # ""
    THEN {u \in usuarios : u.userId = b.userId
            /\ \A w \in usuarios : w.userId = b.userId => u._id <= w._id}
    ELSE {u \in usuarios : u._id = oidMaybe(id)}

\* the $set of actualizarUsuario applied to one document
ApplyUserSet(u, np, e) ==
    [u EXCEPT !.rol = IF np.rol # "" THEN np.rol ELSE @,
              !.rol_id = IF np.rol_id.t # "none" THEN np.rol_id ELSE @,
              !.especialidad = IF e.k # "absent" THEN EspPatch(e) ELSE @]

\* what an updateOne with {upsert: true} would leave: a document made of the
\* $set when the filter matches nothing
updateOne_upsert(us, hit, np, e) ==
    IF hit = {}
    THEN us \cup {ApplyUserSet([_id |-> UnknownUsuario, userId |-> "", rol |-> "",
                                rol_id |-> NoId, especialidad |-> <<>>], np, e)}
    ELSE (us \ hit) \cup {ApplyUserSet(TheOne(hit), np, e)}

\* col.updateOne(filter, {$set}) of actualizarUsuario, called before
\* matchedCount is tested: without upsert it writes only a matched document
updateOne(us, hit, np, e) ==
    IF hit = {} THEN us ELSE (us \ hit) \cup {ApplyUserSet(TheOne(hit), np, e)}

\* PATCH /api/usuarios/:id
actualizarUsuario ==
    \E id \in PathUsuarioIds, b \in PatchBodies :
        LET np == normalizeRole(roles, RolePayload(b))
            hit == MatchUsuario(b, id)
        IN  IF ~usuarioSchemaPatch(b) \/ (b.userId = "" /\ oidMaybe(id) = 0)
            THEN /\ resp' = [op |-> "actualizarUsuario", status |-> 400,
                             malformed |-> oidMaybe(id) = 0]
                 /\ UNCHANGED <<roles, usuarios, nextRol, nextUsuario, nrIn, nrOut, clinicVars, runVars>>
            ELSE /\ usuarios' = updateOne(usuarios, hit, np, b.especialidad)
                 /\ resp' = [op |-> "actualizarUsuario",
                             status |-> IF hit = {} THEN 404 ELSE 200,
                             malformed |-> oidMaybe(id) = 0]
                 /\ UNCHANGED <<roles, nextRol, nextUsuario, nrIn, nrOut, clinicVars, runVars>>

\* DELETE /api/usuarios/:id
eliminarUsuario ==
    \E id \in PathUsuarioIds :
        IF oidMaybe(id) = 0
        THEN /\ resp' = [op |-> "eliminarUsuario", status |-> 400]
             /\ UNCHANGED <<roles, usuarios, nextRol, nextUsuario, nrIn, nrOut, clinicVars, runVars>>
        ELSE IF {u \in usuarios : u._id = oidMaybe(id)} = {}
        THEN /\ resp' = [op |-> "eliminarUsuario", status |-> 404]
             /\ UNCHANGED <<roles, usuarios, nextRol, nextUsuario, nrIn, nrOut, clinicVars, runVars>>
        ELSE /\ usuarios' = {u \in usuarios : u._id # oidMaybe(id)}
             /\ resp' = [op |-> "eliminarUsuario", status |-> 200]
             /\ UNCHANGED <<roles, nextRol, nextUsuario, nrIn, nrOut, clinicVars, runVars>>

\* POST /api/roles ("Otro" is rejected by RoleCreate; a taken nombre by the
\* unique index uq_roles_nombre, E11000)
roles_post ==
    \E nombre \in (RolInputs \ {""}) \cup {"Otro"} :
        IF nombre \notin RolEnum
        THEN /\ resp' = [op |-> "roles_post", status |-> 400]
             /\ UNCHANGED <<roles, usuarios, nextRol, nextUsuario, nrIn, nrOut, clinicVars, runVars>>
        ELSE IF RoleByName(roles, nombre) # {}
        THEN /\ resp' = [op |-> "roles_post", status |-> 409]
             /\ UNCHANGED <<roles, usuarios, nextRol, nextUsuario, nrIn, nrOut, clinicVars, runVars>>
        ELSE /\ nextRol <= MaxRolOid
             /\ roles' = roles \cup {[_id |-> nextRol, nombre |-> nombre,
                                    descripcion |-> "", permisos |-> <<>>]}
             /\ nextRol' = nextRol + 1
             /\ resp' = [op |-> "roles_post", status |-> 201]
             /\ UNCHANGED <<usuarios, nextUsuario, nrIn, nrOut, clinicVars, runVars>>

\* usuarios.countDocuments({rol_id: oid}): an ObjectId matches only a stored
\* ObjectId, never the same identifier stored as a string
CountById(us, oid)      == Cardinality({u \in us : u.rol_id = ObjId(oid)})
\* usuarios.countDocuments({rol: role.nombre})
CountByString(us, nom)  == Cardinality({u \in us : u.rol = nom})

PathRolIds == {BadId} \cup {StrId(n) : n \in ClientRolOids}

\* DELETE /api/roles/:id (the handler reads no query flag; `force` is what
\* the client put in the query string)
roles_delete ==
    \E id \in PathRolIds, force \in {"", "1"} :
        LET oid  == oidMaybe(id)
            role == RoleById(roles, oid)
        IN  IF oid = 0
            THEN /\ resp' = [op |-> "roles_delete", status |-> 400, id |-> id, force |-> force]
                 /\ UNCHANGED <<roles, usuarios, nextRol, nextUsuario, nrIn, nrOut, clinicVars, runVars>>
            ELSE IF role = {}
            THEN /\ resp' = [op |-> "roles_delete", status |-> 404, id |-> id, force |-> force]
                 /\ UNCHANGED <<roles, usuarios, nextRol, nextUsuario, nrIn, nrOut, clinicVars, runVars>>
            ELSE LET byId     == CountById(usuarios, oid)
                     byString == CountByString(usuarios, TheOne(role).nombre)
                 IN  IF byId + byString > 0
                     THEN /\ resp' = [op |-> "roles_delete", status |-> 409, id |-> id,
                                      force |-> force,
                                      byId |-> byId, byString |-> byString]
                          /\ UNCHANGED <<roles, usuarios, nextRol, nextUsuario, nrIn, nrOut, clinicVars, runVars>>
                     ELSE /\ roles' = roles \ role
                          /\ resp' = [op |-> "roles_delete", status |-> 200, id |-> id,
                                      force |-> force]
                          /\ UNCHANGED <<usuarios, nextRol, nextUsuario, nrIn, nrOut, clinicVars, runVars>>

UsersInit ==
    /\ roles = SeededRoles
    /\ usuarios = {}
    /\ nextRol = NumSeed + 1
    /\ nextUsuario = 1
    /\ nrIn = NoPayload
    /\ nrOut = NoPayload
    /\ citas = {} /\ nextCita = 1
    /\ pacientes = {}
    /\ procedimientos = {} /\ nextProc = 1
    /\ historias = {} /\ nextHistoria = 1
    /\ ordenes = {} /\ nextOrden = 1
    /\ RunInit
    /\ resp = [op |-> "init"]

UsersNext ==
    \/ crearUsuario
    \/ actualizarUsuario
    \/ eliminarUsuario
    \/ roles_post
    \/ roles_delete

SpecUsers == UsersInit /\ [][UsersNext]_vars

\* the users that reference role oid: by identifier (in either stored form)
\* or by name
UsersOfRole(us, cat, oid) ==
    {u \in us : \/ parseOid(u.rol_id) = oid
                \/ \E r \in RoleById(cat, oid) : u.rol = r.nombre}

\* C2: every stored user with rol and rol_id set whose rol_id resolves has
\* rol equal to the nombre of the catalog role rol_id denotes.
C2_RolMatchesRolId ==
    \A u \in usuarios :
        (u.rol # "" /\ u.rol_id.t # "none"
            /\ RoleById(roles, parseOid(u.rol_id)) # {})
        => u.rol = TheOne(RoleById(roles, parseOid(u.rol_id))).nombre

\* C5: deleting a role referenced by N >= 1 users answers 409, changes neither
\* the catalog nor the users, and byId + byString = N.
C5_DeleteReferencedRole ==
    [][(resp'.op = "roles_delete"
            /\ Cardinality(UsersOfRole(usuarios, roles, oidMaybe(resp'.id))) >= 1
            /\ RoleById(roles, oidMaybe(resp'.id)) # {})
        => /\ resp'.status = 409
           /\ roles' = roles /\ usuarios' = usuarios
           /\ resp'.byId + resp'.byString
                = Cardinality(UsersOfRole(usuarios, roles, oidMaybe(resp'.id)))]_vars

\* C6: every stored user whose rol is "Odontologo" has a non-empty especialidad.
C6_OdontologoHasEspecialidad ==
    \A u \in usuarios : u.rol = "Odontologo" => u.especialidad # <<>>


(***************************************************************************)
(* routes/citas.js (in src/lib/validate.js from line 182)                  *)
(***************************************************************************)
\* an optional request field
Absent     == [present |-> FALSE, v |-> 0]
Given(x)   == [present |-> TRUE, v |-> x]
AbsentList == [present |-> FALSE, v |-> <<>>]

\* String.prototype.trim on the sample strings (" " is a blank name)
Trim(s) == IF s = " " THEN "" ELSE IF s = " k1" THEN "k1" ELSE s

\* line items as requests carry them; cantidad is read only when hasCantidad
ItLimpieza  == [nombre |-> "Limpieza", costo_unitario |-> 50, hasCantidad |-> TRUE,
                cantidad |-> 2, procedimiento_id |-> NoId]
ItResina    == [nombre |-> "Resina", costo_unitario |-> 30, hasCantidad |-> FALSE,
                cantidad |-> 0, procedimiento_id |-> NoId]
ItBlank     == [nombre |-> " ", costo_unitario |-> 50, hasCantidad |-> TRUE,
                cantidad |-> 1, procedimiento_id |-> NoId]
ItNegative  == [nombre |-> "Resina", costo_unitario |-> -1, hasCantidad |-> TRUE,
                cantidad |-> 1, procedimiento_id |-> NoId]
ItWithRef   == [nombre |-> "Limpieza", costo_unitario |-> 50, hasCantidad |-> TRUE,
                cantidad |-> 1, procedimiento_id |-> StrId(1)]

\* Proc (zod): the item is accepted
ProcValid(it) ==
    /\ it.nombre # ""
    /\ it.costo_unitario >= 0
    /\ (it.hasCantidad => it.cantidad >= 1)

\* Proc (zod): the parsed item; unknown keys are stripped, cantidad defaults to 1
ProcParse(it) ==
    [nombre |-> it.nombre, costo_unitario |-> it.costo_unitario,
     cantidad |-> IF it.hasCantidad THEN it.cantidad ELSE 1]

normalizeProcs_withRef(arr) ==
    LET mapped == [i \in 1..Len(arr) |->
                     [nombre |-> Trim(arr[i].nombre),
                      costo_unitario |-> arr[i].costo_unitario,
                      cantidad |-> arr[i].cantidad,
                      procedimiento_id |-> ObjId(1)]]
        keep(q) == q.nombre # "" /\ q.costo_unitario >= 0 /\ q.cantidad >= 1
    IN  SelectSeq(mapped, keep)

\* normalizeProcs(arr): map to {nombre, costo_unitario, cantidad}, then filter.
\* A stored item's procedimiento_id is NoId when the document has no such key.
normalizeProcs(arr) ==
    LET mapped == [i \in 1..Len(arr) |->
                     [nombre |-> Trim(arr[i].nombre),
                      costo_unitario |-> arr[i].costo_unitario,
                      cantidad |-> arr[i].cantidad,
                      procedimiento_id |-> NoId]]
        keep(q) == q.nombre # "" /\ q.costo_unitario >= 0 /\ q.cantidad >= 1
    IN  SelectSeq(mapped, keep)

\* computeTotal(procs)
RECURSIVE computeTotal(_)
computeTotal(procs) ==
    IF procs = <<>> THEN 0
    ELSE computeTotal(SubSeq(procs, 1, Len(procs) - 1))
            + procs[Len(procs)].costo_unitario * procs[Len(procs)].cantidad

\* CitaCreate.parse(body) succeeds
CitaCreate(b) ==
    /\ b.paciente_id # ""
    /\ OidStr(b.usuario_id)
    /\ \A i \in 1..Len(b.procedimientos.v) : ProcValid(b.procedimientos.v[i])
    /\ (b.total.present => b.total.v >= 0)

\* CitaCreate: total is .optional().default(0), so the parsed total is never
\* undefined
CitaCreateTotal(b) == Given(IF b.total.present THEN b.total.v ELSE 0)

\* a ?? b
Coalesce(a, b) == IF a.present THEN a.v ELSE b

\* CitaPatch.parse(body) succeeds ("" and NoId are absent fields)
CitaPatch(b) ==
    /\ (b.usuario_id.t = "none" \/ OidStr(b.usuario_id))
    /\ \A i \in 1..Len(b.procedimientos.v) : ProcValid(b.procedimientos.v[i])
    /\ (b.total.present => b.total.v >= 0)
    /\ (b.paciente_id # "" \/ b.usuario_id.t # "none"
            \/ b.procedimientos.present \/ b.total.present)

ParsedProcs(b) == [i \in 1..Len(b.procedimientos.v) |-> ProcParse(b.procedimientos.v[i])]

PathCitaIds == {BadId} \cup {StrId(n) : n \in 1..(MaxCitas + 1)} \cup {StrId(11)}

\* POST /api/citas
citas_post(Bodies) ==
    \E b \in Bodies :
        IF ~CitaCreate(b)
        THEN /\ resp' = [op |-> "citas_post", status |-> 400]
             /\ UNCHANGED <<userVars, normVars, runVars, clinicVars>>
        ELSE LET procs == normalizeProcs(ParsedProcs(b))
                 totalCalc == computeTotal(procs)
                 doc == [_id |-> nextCita,
                         paciente_id |-> Trim(b.paciente_id),
                         usuario_id |-> ObjId(b.usuario_id.v),
                         estado |-> "Pendiente",
                         procedimientos |-> procs,
                         total |-> Coalesce(CitaCreateTotal(b), totalCalc)]
             IN  /\ nextCita <= MaxCitas
                 /\ citas' = citas \cup {doc}
                 /\ nextCita' = nextCita + 1
                 /\ resp' = [op |-> "citas_post", status |-> 201, id |-> nextCita,
                             hasProcs |-> b.procedimientos.present,
                             hasTotal |-> b.total.present, total |-> doc.total]
                 /\ UNCHANGED <<userVars, normVars, runVars, gateVars, histVars, labVars>>

\* mutant: procedimientos in the body always force a recomputation
PatchTotal_alwaysRecompute(b, procs, old) ==
    IF b.procedimientos.present THEN computeTotal(procs)
    ELSE IF b.total.present THEN b.total.v
    ELSE old

\* PATCH /api/citas/:id, the total written: explicit, recomputed, or untouched
PatchTotal(b, procs, old) ==
    IF b.total.present THEN b.total.v
    ELSE IF b.procedimientos.present THEN computeTotal(procs)
    ELSE old

\* the $set of PATCH /api/citas/:id applied to one document
ApplyCitaSet(c, b) ==
    LET procs == normalizeProcs(ParsedProcs(b))
    IN  [c EXCEPT !.paciente_id = IF b.paciente_id # "" THEN Trim(b.paciente_id) ELSE @,
                  !.usuario_id = IF b.usuario_id.t # "none"
                                 THEN ObjId(oidMaybe(b.usuario_id)) ELSE @,
                  !.procedimientos = IF b.procedimientos.present THEN procs ELSE @,
                  !.total = PatchTotal(b, procs, @)]

\* PATCH /api/citas/:id
citas_patch(Bodies) ==
    \E id \in PathCitaIds, b \in Bodies :
        LET hit == {c \in citas : c._id = oidMaybe(id)}
        IN  IF oidMaybe(id) = 0 \/ ~CitaPatch(b)
            THEN /\ resp' = [op |-> "citas_patch", status |-> 400]
                 /\ UNCHANGED <<userVars, normVars, runVars, clinicVars>>
            ELSE IF hit = {}
            THEN /\ resp' = [op |-> "citas_patch", status |-> 404]
                 /\ UNCHANGED <<userVars, normVars, runVars, clinicVars>>
            ELSE /\ citas' = (citas \ hit) \cup {ApplyCitaSet(TheOne(hit), b)}
                 /\ resp' = [op |-> "citas_patch", status |-> 200, id |-> oidMaybe(id),
                             hasProcs |-> b.procedimientos.present,
                             hasTotal |-> b.total.present, total |-> b.total.v]
                 /\ UNCHANGED <<userVars, normVars, runVars, nextCita, gateVars, histVars, labVars>>

\* DELETE /api/citas/:id (?soft=true cancels instead of deleting)
citas_delete ==
    \E id \in PathCitaIds, soft \in BOOLEAN :
        LET hit == {c \in citas : c._id = oidMaybe(id)}
        IN  IF oidMaybe(id) = 0
            THEN /\ resp' = [op |-> "citas_delete", status |-> 400]
                 /\ UNCHANGED <<userVars, normVars, runVars, clinicVars>>
            ELSE IF hit = {}
            THEN /\ resp' = [op |-> "citas_delete", status |-> 404]
                 /\ UNCHANGED <<userVars, normVars, runVars, clinicVars>>
            ELSE /\ citas' = IF soft
                             THEN (citas \ hit)
                                    \cup {[TheOne(hit) EXCEPT !.estado = "Cancelada"]}
                             ELSE citas \ hit
                 /\ resp' = [op |-> "citas_delete", status |-> 200]
                 /\ UNCHANGED <<userVars, normVars, runVars, nextCita, gateVars, histVars, labVars>>

(***************************************************************************)
(* Specification SpecCitas: appointments and their computed total          *)
(***************************************************************************)
ProcListInputs ==
    {AbsentList, Given(<<>>), Given(<<ItLimpieza, ItResina>>),
     Given(<<ItBlank, ItLimpieza>>), Given(<<ItNegative>>), Given(<<ItWithRef>>)}

TotalInputs == {Absent, Given(0), Given(200)}

CitaBodies == [paciente_id : {"p1", ""}, usuario_id : {StrId(1), BadId},
               procedimientos : ProcListInputs, total : TotalInputs]

CitaPatchBodies == [paciente_id : {"", "p2"}, usuario_id : {NoId},
                    procedimientos : ProcListInputs, total : TotalInputs]

ClinicInit ==
    /\ roles = SeededRoles
    /\ usuarios = {}
    /\ nextRol = NumSeed + 1
    /\ nextUsuario = 1
    /\ nrIn = NoPayload
    /\ nrOut = NoPayload
    /\ citas = {} /\ nextCita = 1
    /\ pacientes = {}
    /\ procedimientos = {} /\ nextProc = 1
    /\ historias = {} /\ nextHistoria = 1
    /\ ordenes = {} /\ nextOrden = 1
    /\ RunInit
    /\ resp = [op |-> "init"]

CitasNext ==
    \/ citas_post(CitaBodies)
    \/ citas_patch(CitaPatchBodies)
    \/ citas_delete

SpecCitas == ClinicInit /\ [][CitasNext]_vars

CitaById(cs, n) == {c \in cs : c._id = n}

\* C1: an appointment created with line items and no explicit total stores
\* total = sum of costo_unitario * cantidad over the stored line items.
C1_CreateTotalIsSum ==
    (resp.op = "citas_post" /\ resp.status = 201 /\ resp.hasProcs /\ ~resp.hasTotal)
    => \A c \in CitaById(citas, resp.id) : c.total = computeTotal(c.procedimientos)

\* C10: PATCH /citas/:id stores the explicit total verbatim; without one it
\* stores the sum over the newly stored line items when the body carries line
\* items; with neither it leaves total as it was.
C10_PatchTotal ==
    [][(resp'.op = "citas_patch" /\ resp'.status = 200)
        => \A c \in CitaById(citas, resp'.id) : \A d \in CitaById(citas', resp'.id) :
              /\ resp'.hasTotal => d.total = resp'.total
              /\ (~resp'.hasTotal /\ resp'.hasProcs)
                    => d.total = computeTotal(d.procedimientos)
              /\ (~resp'.hasTotal /\ ~resp'.hasProcs) => d.total = c.total]_vars

\* an explicit total of 200 was stored over line items that sum to 130
C10_Witness ==
    /\ resp.op = "citas_patch" /\ resp.status = 200
    /\ resp.hasTotal /\ resp.hasProcs /\ resp.total = 200
    /\ \E c \in CitaById(citas, resp.id) :
          /\ c.total = 200
          /\ Len(c.procedimientos) = 2
          /\ computeTotal(c.procedimientos) = 130


(***************************************************************************)
(* Nested arrays in the store: routes/historias.js,                        *)
(* controllers/historiasClinicasController.js, routes/ordenes_laboratorio.js*)
(***************************************************************************)
\* a null array element (JSON null, or the hole $unset leaves)
Null == [null |-> TRUE]

\* arr[idx] in JavaScript, 0-based: undefined beyond the end, read as Null
ElemAt(arr, idx) == IF idx >= 0 /\ idx < Len(arr) THEN arr[idx + 1] ELSE Null

\* mutant: no lookup of the current element
Missing_never(arr, idx) == FALSE

\* !curr
Missing(arr, idx) == ElemAt(arr, idx) = Null

UnsetAt_last(arr, idx) ==
    IF idx >= 0 /\ Len(arr) > 0
    THEN [arr EXCEPT ![IF idx < Len(arr) THEN idx + 1 ELSE Len(arr)] = Null]
    ELSE arr

\* {$unset: {"<field>.<idx>": 1}}: the element becomes null; beyond the end
\* nothing changes
UnsetAt(arr, idx) ==
    IF idx >= 0 /\ idx < Len(arr) THEN [arr EXCEPT ![idx + 1] = Null] ELSE arr

\* {$pull: {<field>: null}}: every null element goes
PullNull(arr) == LET notNull(x) == x # Null IN SelectSeq(arr, notNull)

\* {$set: {"<field>.<idx>": v}}: beyond the end the array is padded with nulls
SetAt_dropped(arr, idx, v) == arr

SetAt(arr, idx, v) ==
    IF idx < Len(arr) THEN [arr EXCEPT ![idx + 1] = v]
    ELSE arr \o [k \in 1..(idx - Len(arr)) |-> Null] \o <<v>>

IdxInputs == {-1, 0, 1, MaxLen, MaxLen + 2}

PacienteIds == {"p1", "p2"}

\* history line items ("" is an absent field)
TrA == [tratamiento |-> "Limpieza", resultado |-> ""]
TrB == [tratamiento |-> "Resina", resultado |-> "ok"]
TrNoName == [tratamiento |-> "", resultado |-> "ok"]

\* ProcRealizado.parse(it) succeeds
ProcRealizado(it) == it # Null /\ it.tratamiento # ""

\* HistoriaAppend.parse(body) succeeds
HistoriaAppend(b) ==
    /\ b.paciente_id # ""
    /\ \A i \in 1..Len(b.items) : ProcRealizado(b.items[i])
    /\ Len(b.items) > 0

\* ProcPatch.parse(body) succeeds
ProcPatch(pt) == pt.tratamiento # "" \/ pt.resultado # ""

\* {...curr, ...patch}
MergeProc(curr, pt) ==
    [tratamiento |-> IF pt.tratamiento # "" THEN pt.tratamiento
                     ELSE IF curr = Null THEN "" ELSE curr.tratamiento,
     resultado |-> IF pt.resultado # "" THEN pt.resultado
                   ELSE IF curr = Null THEN "" ELSE curr.resultado]

HistoriaOf(hs, pid) == {h \in hs : h.paciente_id = pid}

\* POST /api/historias (append, upsert by paciente_id)
historias_post ==
    \E b \in [paciente_id : {"p1", ""}, items : {<<TrA>>, <<TrNoName>>}] :
        LET req == [paciente_id |-> b.paciente_id, index |-> 0, patch |-> TrA]
            hit == HistoriaOf(historias, Trim(b.paciente_id))
        IN  IF ~HistoriaAppend(b)
            THEN /\ resp' = [op |-> "historias_post", status |-> 400, error |-> "invalid", req |-> req]
                 /\ UNCHANGED <<userVars, normVars, runVars, clinicVars>>
            ELSE IF hit = {}
            THEN /\ (nextHistoria - 1) + (nextOrden - 1) < MaxDocs
                 /\ historias' = historias \cup
                        {[_id |-> nextHistoria, paciente_id |-> Trim(b.paciente_id),
                          procedimientos_realizados |-> b.items]}
                 /\ nextHistoria' = nextHistoria + 1
                 /\ resp' = [op |-> "historias_post", status |-> 200, error |-> "", req |-> req]
                 /\ UNCHANGED <<userVars, normVars, runVars, citaVars, gateVars, labVars>>
            ELSE /\ Len(TheOne(hit).procedimientos_realizados) + Len(b.items) <= MaxLen
                 /\ historias' = (historias \ hit) \cup
                        {[TheOne(hit) EXCEPT !.procedimientos_realizados = @ \o b.items]}
                 /\ resp' = [op |-> "historias_post", status |-> 200, error |-> "", req |-> req]
                 /\ UNCHANGED <<userVars, normVars, runVars, citaVars, gateVars, nextHistoria, labVars>>

\* normalizeArray(value) on arrays of objects and nulls (dates are not
\* modelled): every item is kept, null included
normalizeArray(value) == [i \in 1..Len(value) |-> value[i]]

\* POST /api/historias-clinicas: the body is stored without validation;
\* uq_historia_por_paciente rejects a second history of the same patient
crearHistoria ==
    \E pid \in {"p1", ""}, arr \in {<<>>, <<TrA, Null, TrB>>} :
        LET req == [paciente_id |-> pid, index |-> 0, patch |-> TrA]
        IN  IF pid = "" \/ HistoriaOf(historias, pid) # {}
            THEN /\ resp' = [op |-> "crearHistoria", status |-> 400, error |-> "invalid", req |-> req]
                 /\ UNCHANGED <<userVars, normVars, runVars, clinicVars>>
            ELSE /\ (nextHistoria - 1) + (nextOrden - 1) < MaxDocs
                 /\ historias' = historias \cup
                        {[_id |-> nextHistoria, paciente_id |-> pid,
                          procedimientos_realizados |-> normalizeArray(arr)]}
                 /\ nextHistoria' = nextHistoria + 1
                 /\ resp' = [op |-> "crearHistoria", status |-> 201, error |-> "", req |-> req]
                 /\ UNCHANGED <<userVars, normVars, runVars, citaVars, gateVars, labVars>>

\* DELETE /api/historias-clinicas/:id
eliminarHistoria ==
    \E id \in {BadId} \cup {StrId(n) : n \in 1..(MaxDocs + 1)} :
        LET req == [paciente_id |-> "", index |-> 0, patch |-> TrA]
            hit == {h \in historias : h._id = oidMaybe(id)}
        IN  IF oidMaybe(id) = 0 \/ hit = {}
            THEN /\ resp' = [op |-> "eliminarHistoria",
                             status |-> IF oidMaybe(id) = 0 THEN 400 ELSE 404,
                             error |-> "invalid", req |-> req]
                 /\ UNCHANGED <<userVars, normVars, runVars, clinicVars>>
            ELSE /\ historias' = historias \ hit
                 /\ resp' = [op |-> "eliminarHistoria", status |-> 200, error |-> "", req |-> req]
                 /\ UNCHANGED <<userVars, normVars, runVars, citaVars, gateVars, nextHistoria, labVars>>

\* PATCH /api/historias/:paciente_id/procedimientos/:index
historias_patch ==
    \E pid \in PacienteIds, idx \in IdxInputs,
       pt \in {[tratamiento |-> "", resultado |-> ""],
               [tratamiento |-> "", resultado |-> "bien"]} :
        LET req == [paciente_id |-> pid, index |-> idx, patch |-> pt]
            hit == HistoriaOf(historias, pid)
            arr == TheOne(hit).procedimientos_realizados
            merged == MergeProc(ElemAt(arr, idx), pt)
            answer(st, err) ==
                /\ resp' = [op |-> "historias_patch", status |-> st, error |-> err, req |-> req]
                /\ UNCHANGED <<userVars, normVars, runVars, clinicVars>>
        IN  IF idx < 0 THEN answer(400, "index invalido")
            ELSE IF ~ProcPatch(pt) THEN answer(400, "invalid")
            ELSE IF hit = {} THEN answer(404, "Historia no encontrada")
            ELSE IF Missing(arr, idx) THEN answer(404, "Indice fuera de rango")
            ELSE IF ~ProcRealizado(merged) THEN answer(400, "invalid")
            ELSE /\ historias' = (historias \ hit) \cup
                        {[TheOne(hit) EXCEPT !.procedimientos_realizados = SetAt(arr, idx, merged)]}
                 /\ resp' = [op |-> "historias_patch", status |-> 200, error |-> "", req |-> req]
                 /\ UNCHANGED <<userVars, normVars, runVars, citaVars, gateVars, nextHistoria, labVars>>

\* DELETE /api/historias/:paciente_id/procedimientos/:index
historias_delete ==
    \E pid \in PacienteIds, idx \in IdxInputs :
        LET req == [paciente_id |-> pid, index |-> idx, patch |-> TrA]
            hit == HistoriaOf(historias, pid)
            arr == TheOne(hit).procedimientos_realizados
            answer(st, err) ==
                /\ resp' = [op |-> "historias_delete", status |-> st, error |-> err, req |-> req]
                /\ UNCHANGED <<userVars, normVars, runVars, clinicVars>>
        IN  IF idx < 0 THEN answer(400, "index invalido")
            ELSE IF hit = {} THEN answer(404, "Historia no encontrada")
            ELSE IF Missing(arr, idx) THEN answer(404, "Indice fuera de rango")
            ELSE /\ historias' = (historias \ hit) \cup
                        {[TheOne(hit) EXCEPT
                            !.procedimientos_realizados = PullNull(UnsetAt(arr, idx))]}
                 /\ resp' = [op |-> "historias_delete", status |-> 200, error |-> "", req |-> req]
                 /\ UNCHANGED <<userVars, normVars, runVars, citaVars, gateVars, nextHistoria, labVars>>


(***************************************************************************)
(* routes/ordenes_laboratorio.js                                           *)
(***************************************************************************)
\* products as requests carry them (especificaciones is not modelled)
PrA == [tipo_producto |-> "Corona", cantidad |-> 1]
PrB == [tipo_producto |-> "Puente", cantidad |-> 2]
PrC == [tipo_producto |-> "Ferula", cantidad |-> 1]
PrZero == [tipo_producto |-> "Corona", cantidad |-> 0]

\* Producto.parse(p) succeeds
Producto(p) == p # Null /\ p.tipo_producto # "" /\ p.cantidad >= 1

\* z.array(Producto).min(1)
ProductoList(l) == Len(l) >= 1 /\ \A i \in 1..Len(l) : Producto(l[i])

\* normalizeObservaciones(v) for a string or null
normalizeObservaciones(v) == IF v = "" THEN Null ELSE [notas |-> v]

AbsentObs == [present |-> FALSE, v |-> ""]
NoItem    == [tipo_producto |-> "", cantidad |-> 0]
NoPatch   == [present |-> FALSE, index |-> 0, item |-> NoItem]
PatchOp(i, it) == [present |-> TRUE, index |-> i, item |-> it]

\* OrdenLabPatch.parse(body) succeeds
OrdenLabPatch(b) ==
    /\ (b.set_productos.present => ProductoList(b.set_productos.v))
    /\ (b.push_productos.present => ProductoList(b.push_productos.v))
    /\ (b.producto_patch.present => b.producto_patch.index >= 0)
    /\ (b.producto_delete_index.present => b.producto_delete_index.v >= 0)
    /\ \/ b.estado # "" \/ b.observaciones.present
       \/ b.set_productos.present \/ b.push_productos.present
       \/ b.producto_patch.present \/ b.producto_delete_index.present

OrdenBranch_lastWins(b) ==
    IF b.producto_delete_index.present THEN "producto_delete_index"
    ELSE IF b.producto_patch.present THEN "producto_patch"
    ELSE IF b.push_productos.present THEN "push_productos"
    ELSE IF b.set_productos.present THEN "set_productos"
    ELSE "estado"

\* the branch PATCH /api/ordenes-laboratorio/:id takes, in the order it tests
OrdenBranch(b) ==
    IF b.set_productos.present THEN "set_productos"
    ELSE IF b.push_productos.present THEN "push_productos"
    ELSE IF b.producto_patch.present THEN "producto_patch"
    ELSE IF b.producto_delete_index.present THEN "producto_delete_index"
    ELSE "estado"

\* the productos.map(...) of POST, set_productos and push_productos
MapProductos(l) ==
    [i \in 1..Len(l) |-> [tipo_producto |-> Trim(l[i].tipo_producto),
                          cantidad |-> l[i].cantidad]]

\* {...curr, ...item fields present}
MergeProducto(curr, it) ==
    [tipo_producto |-> IF it.tipo_producto # "" THEN Trim(it.tipo_producto)
                       ELSE IF curr = Null THEN "" ELSE curr.tipo_producto,
     cantidad |-> IF it.cantidad # 0 THEN it.cantidad
                  ELSE IF curr = Null THEN 0 ELSE curr.cantidad]

\* the estado / observaciones part of every $set
SetEstadoObs(o, b) ==
    [o EXCEPT !.estado = IF b.estado # "" THEN b.estado ELSE @,
              !.observaciones = IF b.observaciones.present
                                THEN normalizeObservaciones(b.observaciones.v) ELSE @]

PathOrdenIds == {BadId} \cup {StrId(n) : n \in 1..(MaxDocs + 1)}

\* POST /api/ordenes-laboratorio
ordenes_post ==
    \E cita \in {StrId(1), BadId},
       ps \in {<<PrA>>, <<PrA, PrB, PrC>>, <<PrZero>>, <<>>},
       obs \in {AbsentObs} :
        IF ~OidStr(cita) \/ ~ProductoList(ps)
        THEN /\ resp' = [op |-> "ordenes_post", status |-> 400]
             /\ UNCHANGED <<userVars, normVars, runVars, clinicVars>>
        ELSE /\ (nextHistoria - 1) + (nextOrden - 1) < MaxDocs
             /\ ordenes' = ordenes \cup
                    {[_id |-> nextOrden, estado |-> "Pendiente",
                      observaciones |-> IF obs.present THEN normalizeObservaciones(obs.v)
                                        ELSE Null,
                      productos |-> MapProductos(ps)]}
             /\ nextOrden' = nextOrden + 1
             /\ resp' = [op |-> "ordenes_post", status |-> 201]
             /\ UNCHANGED <<userVars, normVars, runVars, citaVars, gateVars, histVars>>

OrdenOps ==
    LET op(s, p, pa, d) == [set_productos |-> s, push_productos |-> p,
                            producto_patch |-> pa, producto_delete_index |-> d]
    IN  {op(AbsentList, AbsentList, NoPatch, Absent),
         op(Given(<<PrB>>), AbsentList, NoPatch, Absent),
         op(Given(<<PrZero>>), AbsentList, NoPatch, Absent),
         op(AbsentList, Given(<<PrC>>), NoPatch, Absent),
         op(Given(<<PrB>>), AbsentList, PatchOp(MaxLen + 2, PrB), Absent),
         op(AbsentList, AbsentList, PatchOp(0, PrB), Given(1)),
         op(Given(<<PrB>>), Given(<<PrC>>), NoPatch, Given(0)),
         op(AbsentList, Given(<<PrC>>), PatchOp(0, PrB), Given(0))}
      \cup {op(AbsentList, AbsentList, PatchOp(i, it), Absent) :
                i \in IdxInputs, it \in {[tipo_producto |-> "Puente", cantidad |-> 0]}}
      \cup {op(AbsentList, AbsentList, NoPatch, Given(i)) : i \in IdxInputs}

OrdenPatchBodies ==
    {[estado |-> eo[1], observaciones |-> eo[2],
      set_productos |-> x.set_productos, push_productos |-> x.push_productos,
      producto_patch |-> x.producto_patch,
      producto_delete_index |-> x.producto_delete_index] :
        eo \in {<<"", AbsentObs>>, <<"Entregada", [present |-> TRUE, v |-> "nota"]>>},
        x \in OrdenOps}

\* PATCH /api/ordenes-laboratorio/:id
ordenes_patch ==
    \E id \in PathOrdenIds, b \in OrdenPatchBodies :
        LET req == [id |-> id, body |-> b]
            hit == {o \in ordenes : o._id = oidMaybe(id)}
            o == TheOne(hit)
            idx == b.producto_patch.index
            merged == MergeProducto(ElemAt(o.productos, idx), b.producto_patch.item)
            del == b.producto_delete_index.v
            answer(st, err) ==
                /\ resp' = [op |-> "ordenes_patch", status |-> st, error |-> err, req |-> req]
                /\ UNCHANGED <<userVars, normVars, runVars, clinicVars>>
            write(doc) ==
                /\ ordenes' = (ordenes \ hit) \cup {doc}
                /\ resp' = [op |-> "ordenes_patch", status |-> 200, error |-> "", req |-> req]
                /\ UNCHANGED <<userVars, normVars, runVars, citaVars, gateVars, histVars, nextOrden>>
        IN  IF oidMaybe(id) = 0 THEN answer(400, "id invalido")
            ELSE IF ~OrdenLabPatch(b) THEN answer(400, "invalid")
            ELSE IF OrdenBranch(b) = "set_productos"
            THEN IF hit = {} THEN answer(404, "Orden no encontrada")
                 ELSE write(SetEstadoObs([o EXCEPT !.productos = MapProductos(b.set_productos.v)], b))
            ELSE IF OrdenBranch(b) = "push_productos"
            THEN IF hit = {} THEN answer(404, "Orden no encontrada")
                 ELSE /\ Len(o.productos) + Len(b.push_productos.v) <= MaxLen
                      /\ write(SetEstadoObs(
                            [o EXCEPT !.productos = @ \o MapProductos(b.push_productos.v)], b))
            ELSE IF OrdenBranch(b) = "producto_patch"
            THEN IF hit = {} THEN answer(404, "Orden no encontrada")
                 ELSE IF Missing(o.productos, idx) THEN answer(404, "Indice fuera de rango")
                 ELSE IF ~Producto(merged) THEN answer(400, "invalid")
                 ELSE write(SetEstadoObs(
                            [o EXCEPT !.productos = SetAt(o.productos, idx, merged)], b))
            ELSE IF OrdenBranch(b) = "producto_delete_index"
            THEN IF hit = {} THEN answer(200, "")
                 ELSE write(SetEstadoObs(
                            [o EXCEPT !.productos = PullNull(UnsetAt(o.productos, del))], b))
            ELSE IF hit = {} THEN answer(404, "Orden no encontrada")
                 ELSE write(SetEstadoObs(o, b))

\* DELETE /api/ordenes-laboratorio/:id
ordenes_delete ==
    \E id \in PathOrdenIds :
        LET hit == {o \in ordenes : o._id = oidMaybe(id)}
        IN  IF oidMaybe(id) = 0 \/ hit = {}
            THEN /\ resp' = [op |-> "ordenes_delete",
                             status |-> IF oidMaybe(id) = 0 THEN 400 ELSE 404]
                 /\ UNCHANGED <<userVars, normVars, runVars, clinicVars>>
            ELSE /\ ordenes' = ordenes \ hit
                 /\ resp' = [op |-> "ordenes_delete", status |-> 200]
                 /\ UNCHANGED <<userVars, normVars, runVars, citaVars, gateVars, histVars, nextOrden>>

(***************************************************************************)
(* Specification SpecArr: the nested arrays of histories and lab orders    *)
(***************************************************************************)
ArrNext ==
    \/ historias_post
    \/ crearHistoria
    \/ eliminarHistoria
    \/ historias_patch
    \/ historias_delete
    \/ ordenes_post
    \/ ordenes_patch
    \/ ordenes_delete

SpecArr == ClinicInit /\ [][ArrNext]_vars

\* the sequence without its element at 0-based position idx
RemoveAt(arr, idx) == SubSeq(arr, 1, idx) \o SubSeq(arr, idx + 2, Len(arr))

NoNulls(arr) == \A k \in 1..Len(arr) : arr[k] # Null

\* C4: delete-by-index at position i, 0 <= i < n, on a stored array of length
\* n leaves exactly the original sequence without its element at i: n-1
\* elements, none null, the others in their original order. Histories
\* (DELETE /historias/:paciente_id/procedimientos/:index) and lab orders
\* (producto_delete_index).
C4_DeleteByIndex ==
    [][/\ (resp'.op = "historias_delete")
            => \A h \in HistoriaOf(historias, resp'.req.paciente_id) :
                 (resp'.req.index >= 0
                    /\ resp'.req.index < Len(h.procedimientos_realizados))
                 => \E g \in HistoriaOf(historias', resp'.req.paciente_id) :
                      /\ g.procedimientos_realizados
                            = RemoveAt(h.procedimientos_realizados, resp'.req.index)
                      /\ NoNulls(g.procedimientos_realizados)
       /\ (resp'.op = "ordenes_patch" /\ resp'.status = 200
             /\ OrdenBranch(resp'.req.body) = "producto_delete_index")
            => \A o \in {x \in ordenes : x._id = oidMaybe(resp'.req.id)} :
                 (resp'.req.body.producto_delete_index.v < Len(o.productos))
                 => \E g \in {x \in ordenes' : x._id = o._id} :
                      /\ g.productos
                            = RemoveAt(o.productos, resp'.req.body.producto_delete_index.v)
                      /\ NoNulls(g.productos)]_vars

\* C7: a merge-patch at an index at or beyond the current array length
\* answers 404 "index out of range" and changes nothing in the store, the
\* estado / observaciones of the same request included. Histories (PATCH
\* /historias/:paciente_id/procedimientos/:index) and lab orders
\* (producto_patch).
C7_PatchOutOfRange ==
    [][/\ (resp'.op = "historias_patch" /\ ProcPatch(resp'.req.patch))
            => \A h \in HistoriaOf(historias, resp'.req.paciente_id) :
                 resp'.req.index >= Len(h.procedimientos_realizados)
                 => /\ resp'.status = 404
                    /\ resp'.error = "Indice fuera de rango"
                    /\ UNCHANGED <<userVars, clinicVars>>
       /\ (resp'.op = "ordenes_patch" /\ oidMaybe(resp'.req.id) # 0
             /\ OrdenLabPatch(resp'.req.body)
             /\ OrdenBranch(resp'.req.body) = "producto_patch")
            => \A o \in {x \in ordenes : x._id = oidMaybe(resp'.req.id)} :
                 resp'.req.body.producto_patch.index >= Len(o.productos)
                 => /\ resp'.status = 404
                    /\ resp'.error = "Indice fuera de rango"
                    /\ UNCHANGED <<userVars, clinicVars>>]_vars

\* index 5 of an order with 3 products was patched, with estado and
\* observaciones in the same request: 404 and the order is as it was created
C7_Witness ==
    /\ resp.op = "ordenes_patch" /\ resp.status = 404
    /\ resp.error = "Indice fuera de rango"
    /\ resp.req.body.producto_patch.index = MaxLen + 2
    /\ resp.req.body.estado = "Entregada"
    /\ resp.req.body.observaciones.present
    /\ \E o \in ordenes :
          /\ o._id = oidMaybe(resp.req.id)
          /\ Len(o.productos) = 3
          /\ o.estado = "Pendiente"
          /\ o.observaciones = Null


(***************************************************************************)
(* Referential gates: routes/procedimientos.js, routes/pacientes.js        *)
(***************************************************************************)
\* String(v).trim().toLowerCase() on the sample flags
Lower(v) == IF v = "TRUE" THEN "true" ELSE IF v = "FALSE" THEN "false" ELSE v

\* parseBool(v) of routes/procedimientos.js ("" is an absent query parameter)
parseBool(v) ==
    IF v = "" THEN "null"
    ELSE IF Lower(v) \in {"1", "true", "t", "yes", "y"} THEN "true"
    ELSE IF Lower(v) \in {"0", "false", "f", "no", "n"} THEN "false"
    ELSE "null"

ForceInputs == {"", "1", "0", "TRUE", "x"}

\* titleCase(s) on the sample names
titleCase(s) == IF s = "ana" THEN "Ana" ELSE IF s = "LUIS" THEN "Luis" ELSE s

createdAt_set(hit, t) == t

\* $setOnInsert: {createdAt: now} -- written only by the inserting upsert
createdAt(hit, t) == IF hit = {} THEN t ELSE TheOne(hit).createdAt

\* POST /api/pacientes (upsert by _id), for bodies with the given nombres
pacientes_post(Nombres) ==
    \E id \in PacienteIds \cup {""}, nom \in Nombres :
        LET hit == {x \in pacientes : x._id = id}
            req == [_id |-> id, nombres |-> nom]
        IN  IF id = ""
            THEN /\ resp' = [op |-> "pacientes_post", status |-> 400, req |-> req]
                 /\ UNCHANGED <<userVars, normVars, runVars, clinicVars>>
            ELSE /\ pacientes' = (pacientes \ hit) \cup
                        {[_id |-> id, nombres |-> titleCase(nom),
                          createdAt |-> createdAt(hit, now), updatedAt |-> now]}
                 /\ resp' = [op |-> "pacientes_post",
                             status |-> IF hit = {} THEN 201 ELSE 200, req |-> req]
                 /\ UNCHANGED <<userVars, normVars, runVars, citaVars, procedimientos, nextProc,
                                histVars, labVars>>

\* countDocuments({paciente_id: id})
CountByPaciente(coll, id) == Cardinality({d \in coll : d.paciente_id = id})

\* mutant: the history count is left out of the sum
PacienteRefs_citasOnly(citasRef, historiaRef) == citasRef

\* refs = (citasRef || 0) + (historiaRef || 0)
PacienteRefs(citasRef, historiaRef) == citasRef + historiaRef

\* DELETE /api/pacientes/:id (the handler reads no query parameter)
pacientes_delete ==
    \E id \in PacienteIds, force \in {"", "1"} :
        LET citasRef == CountByPaciente(citas, id)
            historiaRef == CountByPaciente(historias, id)
            hit == {x \in pacientes : x._id = id}
            answer(st) ==
                /\ resp' = [op |-> "pacientes_delete", status |-> st, id |-> id,
                            force |-> force,
                            refs |-> [citas |-> citasRef, historia |-> historiaRef]]
                /\ UNCHANGED <<userVars, normVars, runVars, clinicVars>>
        IN  IF PacienteRefs(citasRef, historiaRef) > 0 THEN answer(409)
            ELSE IF hit = {} THEN answer(404)
            ELSE /\ pacientes' = pacientes \ hit
                 /\ resp' = [op |-> "pacientes_delete", status |-> 200, id |-> id,
                             force |-> force,
                             refs |-> [citas |-> citasRef, historia |-> historiaRef]]
                 /\ UNCHANGED <<userVars, normVars, runVars, citaVars, procedimientos, nextProc,
                                histVars, labVars>>

\* POST /api/procedimientos (uq_procedimiento_tipo rejects a duplicate name)
procedimientos_post ==
    \E tipo \in {"Resina", "Limpieza", " "} :
        IF Trim(tipo) \in {x.tipo_procedimiento : x \in procedimientos}
        THEN /\ resp' = [op |-> "procedimientos_post", status |-> 409]
             /\ UNCHANGED <<userVars, normVars, runVars, clinicVars>>
        ELSE /\ nextProc <= MaxProcOid
             /\ procedimientos' = procedimientos \cup
                    {[_id |-> nextProc, tipo_procedimiento |-> Trim(tipo),
                      costo |-> 50, activo |-> TRUE]}
             /\ nextProc' = nextProc + 1
             /\ resp' = [op |-> "procedimientos_post", status |-> 201]
             /\ UNCHANGED <<userVars, normVars, runVars, citaVars, pacientes, histVars, labVars>>

\* mutant: the referencing line items are counted, not the appointments
CountProcRefs_items(cs, oid) ==
    Cardinality({p \in cs \X (1..MaxLen) :
                    /\ p[2] <= Len(p[1].procedimientos)
                    /\ p[1].procedimientos[p[2]].procedimiento_id = ObjId(oid)})

\* citas.countDocuments({"procedimientos.procedimiento_id": oid})
CountProcRefs(cs, oid) ==
    Cardinality({c \in cs : \E i \in 1..Len(c.procedimientos) :
                                c.procedimientos[i].procedimiento_id = ObjId(oid)})

PathProcIds == {BadId} \cup {StrId(n) : n \in 1..MaxProcOid}

\* DELETE /api/procedimientos/:id
procedimientos_delete ==
    \E id \in PathProcIds, force \in ForceInputs :
        LET oid == oidMaybe(id)
            refs == CountProcRefs(citas, oid)
            hit == {x \in procedimientos : x._id = oid}
            answer(st) ==
                /\ resp' = [op |-> "procedimientos_delete", status |-> st, id |-> id,
                            force |-> force, refs |-> refs]
                /\ UNCHANGED <<userVars, normVars, runVars, clinicVars>>
        IN  IF oid = 0 THEN answer(400)
            ELSE IF refs > 0 /\ parseBool(force) # "true" THEN answer(409)
            ELSE IF hit = {} THEN answer(404)
            ELSE /\ procedimientos' = procedimientos \ hit
                 /\ resp' = [op |-> "procedimientos_delete", status |-> 200, id |-> id,
                             force |-> force, refs |-> refs]
                 /\ UNCHANGED <<userVars, normVars, runVars, citaVars, pacientes, nextProc,
                                histVars, labVars>>

(***************************************************************************)
(* Specification SpecGate: deletes behind a reference count                *)
(***************************************************************************)
\* a line item of an appointment written before the current POST /citas:
\* it carries the ObjectId of a procedure type
LegacyItem(n) == [nombre |-> "Limpieza", costo_unitario |-> 50, cantidad |-> 1,
                  procedimiento_id |-> ObjId(n)]

LegacyCitas ==
    {[_id |-> 11, paciente_id |-> "p1", usuario_id |-> ObjId(1), estado |-> "Pendiente",
      procedimientos |-> <<LegacyItem(1), LegacyItem(1)>>, total |-> 100],
     [_id |-> 12, paciente_id |-> "p1", usuario_id |-> ObjId(1), estado |-> "Pendiente",
      procedimientos |-> <<LegacyItem(1)>>, total |-> 50]}

GateInit ==
    /\ roles = SeededRoles
    /\ usuarios = {}
    /\ nextRol = NumSeed + 1
    /\ nextUsuario = 1
    /\ nrIn = NoPayload
    /\ nrOut = NoPayload
    /\ citas \in SUBSET LegacyCitas
    /\ nextCita = 1
    /\ pacientes = {}
    /\ procedimientos = {[_id |-> 1, tipo_procedimiento |-> "Limpieza",
                          costo |-> 50, activo |-> TRUE]}
    /\ nextProc = 2
    /\ historias = {} /\ nextHistoria = 1
    /\ ordenes = {} /\ nextOrden = 1
    /\ RunInit
    /\ resp = [op |-> "init"]

GateCitaBodies == [paciente_id : {"p2"}, usuario_id : {StrId(1)},
                   procedimientos : {Given(<<ItWithRef>>)}, total : {Absent}]

GateNext ==
    \/ pacientes_post({"ana"})
    \/ pacientes_delete
    \/ procedimientos_post
    \/ procedimientos_delete
    \/ citas_post(GateCitaBodies)
    \/ crearHistoria
    \/ eliminarHistoria

SpecGate == GateInit /\ [][GateNext]_vars

\* C8: DELETE /procedimientos/:id on a stored procedure type that k >= 1
\* appointments reference: without a truthy force flag the answer is 409 and
\* names k, and nothing changes; with force=1 the procedure type is deleted
\* and the appointments stay as they are.
C8_DeleteReferencedProcedure ==
    [][(resp'.op = "procedimientos_delete" /\ oidMaybe(resp'.id) # 0)
        => LET oid == oidMaybe(resp'.id)
               refd == {c \in citas : \E i \in 1..Len(c.procedimientos) :
                            c.procedimientos[i].procedimiento_id = ObjId(oid)}
               k == Cardinality(refd)
               target == {x \in procedimientos : x._id = oid}
           IN  (k >= 1 /\ target # {})
               => /\ resp'.force \in {"", "0", "x"}
                     => /\ resp'.status = 409
                        /\ resp'.refs = k
                        /\ procedimientos' = procedimientos
                        /\ citas' = citas
                  /\ resp'.force = "1"
                     => /\ resp'.status = 200
                        /\ procedimientos' = procedimientos \ target
                        /\ citas' = citas]_vars

\* a forced delete removed a procedure type that two appointments reference
C8_Witness ==
    /\ resp.op = "procedimientos_delete" /\ resp.status = 200
    /\ resp.force = "1" /\ resp.refs = 2
    /\ \A x \in procedimientos : x._id # oidMaybe(resp.id)
    /\ LegacyCitas \subseteq citas

\* C9: DELETE /pacientes/:id on a patient that an appointment or a clinical
\* history references answers 409 with the count of each collection and
\* leaves the patient stored, whatever query flag comes with it; a patient is
\* removed only when both counts are zero.
C9_DeleteReferencedPaciente ==
    [][(resp'.op = "pacientes_delete")
        => LET nc == Cardinality({c \in citas : c.paciente_id = resp'.id})
               nh == Cardinality({h \in historias : h.paciente_id = resp'.id})
           IN  /\ (nc + nh >= 1)
                  => /\ resp'.status = 409
                     /\ resp'.refs = [citas |-> nc, historia |-> nh]
                     /\ pacientes' = pacientes
               /\ (pacientes' # pacientes) => (nc = 0 /\ nh = 0)]_vars

\* a stored patient referenced by a clinical history only was refused
\* although force=1 came with the request
C9_Witness ==
    /\ resp.op = "pacientes_delete" /\ resp.status = 409 /\ resp.force = "1"
    /\ resp.refs.citas = 0 /\ resp.refs.historia = 1
    /\ \E x \in pacientes : x._id = resp.id


(***************************************************************************)
(* Specification SpecHist: one clinical history per patient                *)
(***************************************************************************)
\* mutant: historias_clinicas without its unique index
DupPaciente_never(hs, self, pid) == FALSE

\* uq_historia_por_paciente: the write would give a second document the same
\* paciente_id (E11000)
DupPaciente(hs, self, pid) == \E h \in hs : h._id # self /\ h.paciente_id = pid

\* PATCH /api/historias-clinicas/:id
actualizarHistoria ==
    \E id \in {BadId, StrId(1), StrId(21)}, pid \in {"", "p1", "p2"},
       arr \in {AbsentList, Given(<<TrA, Null>>)} :
        LET oid == oidMaybe(id)
            req == [id |-> id, paciente_id |-> pid, procedimientos_realizados |-> arr]
            hit == {h \in historias : h._id = oid}
            updated == [TheOne(hit) EXCEPT
                          !.paciente_id = IF pid # "" THEN pid ELSE @,
                          !.procedimientos_realizados =
                              IF arr.present THEN normalizeArray(arr.v) ELSE @]
            answer(st, err) ==
                /\ resp' = [op |-> "actualizarHistoria", status |-> st, error |-> err,
                            req |-> req]
                /\ UNCHANGED <<userVars, normVars, runVars, clinicVars>>
        IN  IF oid = 0 THEN answer(400, "ID invalido")
            ELSE IF pid = "" /\ ~arr.present THEN answer(400, "Nada para actualizar")
            ELSE IF hit = {} THEN answer(404, "Historia clinica no encontrada")
            ELSE IF pid # "" /\ DupPaciente(historias, oid, pid) THEN answer(400, "E11000")
            ELSE /\ historias' = (historias \ hit) \cup {updated}
                 /\ resp' = [op |-> "actualizarHistoria", status |-> 200, error |-> "",
                             req |-> req]
                 /\ UNCHANGED <<userVars, normVars, runVars, citaVars, gateVars,
                                nextHistoria, labVars>>

\* the store after POST /api/historias {paciente_id: "p2", procedimiento: TrB}
HistInit ==
    /\ roles = SeededRoles
    /\ usuarios = {}
    /\ nextRol = NumSeed + 1
    /\ nextUsuario = 1
    /\ nrIn = NoPayload
    /\ nrOut = NoPayload
    /\ citas = {} /\ nextCita = 1
    /\ pacientes = {}
    /\ procedimientos = {} /\ nextProc = 1
    /\ historias = {[_id |-> 21, paciente_id |-> "p2",
                     procedimientos_realizados |-> <<TrB>>]}
    /\ nextHistoria = 1
    /\ ordenes = {} /\ nextOrden = 1
    /\ RunInit
    /\ resp = [op |-> "init"]

HistNext ==
    \/ historias_post
    \/ crearHistoria
    \/ actualizarHistoria
    \/ eliminarHistoria

SpecHist == HistInit /\ [][HistNext]_vars

\* C11: historias_clinicas never holds two documents with the same
\* paciente_id, whatever POST /historias, POST /historias-clinicas,
\* PATCH /historias-clinicas/:id and the deletes did.
C11_OneHistoriaPerPaciente ==
    \A h1 \in historias : \A h2 \in historias :
        h1.paciente_id = h2.paciente_id => h1 = h2

\* two histories are stored and a PATCH that would move one onto the other's
\* paciente_id was refused
C11_Witness ==
    /\ Cardinality(historias) = 2
    /\ resp.op = "actualizarHistoria" /\ resp.status = 400 /\ resp.error = "E11000"
    /\ \E h \in historias : h._id # oidMaybe(resp.req.id)
                              /\ h.paciente_id = resp.req.paciente_id


\* C12: a PATCH or DELETE addressed to a well-formed identifier whose entity
\* is not in the store answers 404 and writes nothing; for PATCH
\* /ordenes-laboratorio/:id this holds for each kind of operation.
C12_AbsentIs404 ==
    [][(/\ resp'.op = "ordenes_patch"
        /\ oidMaybe(resp'.req.id) # 0
        /\ OrdenLabPatch(resp'.req.body)
        /\ \A o \in ordenes : o._id # oidMaybe(resp'.req.id))
        => (resp'.status = 404 /\ UNCHANGED <<userVars, clinicVars>>)]_vars


\* C15: a route that takes a generated identifier as path parameter answers
\* 400 and writes nothing when that identifier is malformed (oidMaybe gives
\* null). PATCH /usuarios/:id.
C15_MalformedIdIs400 ==
    [][(resp'.op = "actualizarUsuario" /\ resp'.malformed)
        => (resp'.status = 400 /\ usuarios' = usuarios)]_vars

(***************************************************************************)
(* Specification SpecRoles: the role catalog from an empty store -- the    *)
(* seed run by connect(), POST, PATCH and DELETE /api/roles                *)
(***************************************************************************)
ensureRolesSeed_always(cat, first) == cat \cup SeedDocs(first)

\* lib/roles.js ensureRolesSeed: the catalog it leaves, the store handing out
\* identifiers after `first`
ensureRolesSeed(cat, first) ==
    IF Cardinality(cat) > 0 THEN cat ELSE cat \cup SeedDocs(first)

\* lib/mongo.js connect(), first call of a server process (SKIP_INDEX_SEED
\* unset): a process restart runs it again on whatever catalog is stored
connect ==
    /\ roles' = ensureRolesSeed(roles, nextRol - 1)
    /\ nextRol' = nextRol + (Cardinality(roles') - Cardinality(roles))
    /\ resp' = [op |-> "connect"]
    /\ UNCHANGED <<usuarios, nextUsuario, nrIn, nrOut, clinicVars, runVars>>

\* RolePatch.parse(body) succeeds: unknown keys (nombre) are stripped first
RolePatch(b) ==
    /\ b.descripcion.present \/ b.permisos.present
    /\ b.permisos.present => \A i \in 1..Len(b.permisos.v) : b.permisos.v[i] # ""

RoleSet_withNombre(r, b) ==
    [r EXCEPT !.nombre = IF b.nombre # "" THEN b.nombre ELSE @,
              !.descripcion = IF b.descripcion.present THEN Trim(b.descripcion.v) ELSE @,
              !.permisos = IF b.permisos.present THEN b.permisos.v ELSE @]

\* the $set of PATCH /api/roles/:id applied to the matched role
RoleSet(r, b) ==
    [r EXCEPT !.descripcion = IF b.descripcion.present THEN Trim(b.descripcion.v) ELSE @,
              !.permisos = IF b.permisos.present THEN b.permisos.v ELSE @]

RolePatchBodies ==
    {[descripcion |-> d, permisos |-> p, nombre |-> n] :
        d \in {AbsentObs, [present |-> TRUE, v |-> " "], [present |-> TRUE, v |-> "Nueva"]},
        p \in {AbsentList, Given(<<"ver">>), Given(<<"">>)},
        n \in {"", "Administrador"}}

\* PATCH /api/roles/:id
roles_patch ==
    \E id \in {BadId, StrId(2), StrId(UnknownOid)}, b \in RolePatchBodies :
        LET oid == oidMaybe(id)
            rq  == [id |-> id, body |-> b]
        IN  IF oid = 0 \/ ~RolePatch(b)
            THEN /\ resp' = [op |-> "roles_patch", status |-> 400, req |-> rq]
                 /\ UNCHANGED <<userVars, normVars, clinicVars, runVars>>
            ELSE /\ roles' = {IF r._id = oid THEN RoleSet(r, b) ELSE r : r \in roles}
                 /\ resp' = [op |-> "roles_patch",
                             status |-> IF RoleById(roles, oid) = {} THEN 404 ELSE 200,
                             req |-> rq]
                 /\ UNCHANGED <<usuarios, nextRol, nextUsuario, normVars, clinicVars, runVars>>

RolesInit ==
    /\ roles = {}
    /\ usuarios = {}
    /\ nextRol = 1
    /\ nextUsuario = 1
    /\ nrIn = NoPayload
    /\ nrOut = NoPayload
    /\ citas = {} /\ nextCita = 1
    /\ pacientes = {}
    /\ procedimientos = {} /\ nextProc = 1
    /\ historias = {} /\ nextHistoria = 1
    /\ ordenes = {} /\ nextOrden = 1
    /\ RunInit
    /\ resp = [op |-> "init"]

RolesNext ==
    \/ connect
    \/ roles_post
    \/ roles_patch
    \/ roles_delete
    \/ crearUsuario

SpecRoles == RolesInit /\ [][RolesNext]_vars

\* C14: a seed run on an empty roles collection leaves exactly the four
\* enumerated roles, each once and with empty permisos; a seed run on a
\* collection that holds any role changes nothing; no name is ever stored twice.
C14_SeedIffEmpty ==
    [][resp'.op = "connect" =>
        /\ roles = {} => /\ {r.nombre : r \in roles'} = RoleNameSet
                         /\ Cardinality(roles') = NumSeed
                         /\ \A r \in roles' : r.permisos = <<>>
        /\ roles # {} => roles' = roles
        /\ \A n \in RoleNameSet : Cardinality(RoleByName(roles', n)) <= 1]_vars

\* a restart found a catalog that had lost seeded roles and left it alone
C14_Witness ==
    /\ resp.op = "connect"
    /\ roles # {} /\ Cardinality(roles) < NumSeed
    /\ \E r \in roles : r.descripcion = SeedDescripcion(r.nombre)

\* C18: a PATCH /api/roles/:id changes no role's nombre, adds or removes no
\* role, leaves every role but the addressed one as it was, and changes no user.
C18_PatchKeepsNombre ==
    [][resp'.op = "roles_patch" =>
        /\ usuarios' = usuarios
        /\ {r._id : r \in roles'} = {r._id : r \in roles}
        /\ Cardinality(roles') = Cardinality(roles)
        /\ \A r \in roles : \A q \in roles' :
              r._id = q._id => /\ q.nombre = r.nombre
                               /\ r._id # oidMaybe(resp'.req.id) => q = r]_vars

\* a patch whose body also carried a nombre was applied, with a user stored
C18_Witness ==
    /\ resp.op = "roles_patch" /\ resp.status = 200
    /\ resp.req.body.nombre = "Administrador"
    /\ usuarios # {}
    /\ \E r \in roles : /\ r._id = oidMaybe(resp.req.id)
                        /\ r.nombre = "Odontologo"
                        /\ r.descripcion = "Nueva"
                        /\ r.permisos = <<"ver">>

(***************************************************************************)
(* Specification SpecMut: the array handlers together with PATCH           *)
(* /api/usuarios/:id, for what a refused mutation leaves in the store      *)
(***************************************************************************)
MutNext ==
    \/ ArrNext
    \/ actualizarUsuario

SpecMut == ClinicInit /\ [][MutNext]_vars

\* the two-step delete of one array element, by either route
DeleteByIndex(r) ==
    \/ r.op = "historias_delete"
    \/ r.op = "ordenes_patch" /\ OrdenBranch(r.req.body) = "producto_delete_index"

\* C13: a mutation other than delete-by-index that answers ok:false (status
\* 400, 404 or 409) leaves every collection as it was before the request.
C13_FailureWritesNothing ==
    [][(resp'.status >= 400 /\ ~DeleteByIndex(resp'))
        => UNCHANGED <<userVars, clinicVars>>]_vars

\* PATCH /usuarios/:id with a well-formed id called updateOne, matched no
\* user and was answered 404, while a lab order was stored
C13_Witness ==
    /\ resp.op = "actualizarUsuario" /\ resp.status = 404 /\ ~resp.malformed
    /\ ordenes # {}

(***************************************************************************)
(* Specification SpecAuth: the optional API-key gate of server.js in front *)
(* of the /api routers ("" is an unset variable or a missing header)       *)
(***************************************************************************)
\* server.js enableApiKey, computed once at start-up
enableApiKey ==
    /\ Lower(IF env.ENABLE_API_KEY = "" THEN "true" ELSE env.ENABLE_API_KEY) # "false"
    /\ env.API_KEY # ""

apiKeyAuth_open(key) == TRUE

\* middlewares/auth.js apiKeyAuth calls next()
apiKeyAuth(key) ==
    LET expected == Trim(env.API_KEY)
    IN  expected # "" /\ Trim(key) = expected

\* a request under /api arrives carrying x-api-key k
api_request ==
    \E k \in {"", "k1", "bad"} :
        /\ hdr' = k
        /\ resp' = [op |-> "api_request", status |-> 0]
        /\ UNCHANGED <<userVars, normVars, clinicVars, env, now, inflight, proc>>

\* app.use("/api", apiKeyAuth) answers 401 and the routers are not reached
unauthorized ==
    /\ enableApiKey /\ ~apiKeyAuth(hdr)
    /\ resp' = [op |-> "apiKeyAuth", status |-> 401]
    /\ UNCHANGED <<userVars, normVars, clinicVars, runVars>>

\* the routers mounted after the gate, reached when it is off or calls next()
routed(handler) == (enableApiKey => apiKeyAuth(hdr)) /\ handler

\* GET /health, mounted before the gate
health ==
    /\ resp' = [op |-> "health", status |-> 200]
    /\ UNCHANGED <<userVars, normVars, clinicVars, runVars>>

AuthInit ==
    /\ roles = SeededRoles
    /\ usuarios = {}
    /\ nextRol = NumSeed + 1
    /\ nextUsuario = 1
    /\ nrIn = NoPayload
    /\ nrOut = NoPayload
    /\ citas = {} /\ nextCita = 1
    /\ pacientes = {}
    /\ procedimientos = {} /\ nextProc = 1
    /\ historias = {} /\ nextHistoria = 1
    /\ ordenes = {} /\ nextOrden = 1
    /\ env \in [API_KEY : {"", "k1", " k1", " "}, ENABLE_API_KEY : {"", "false", "FALSE"}]
    /\ hdr = "" /\ now = 0 /\ inflight = {} /\ proc = Connected
    /\ resp = [op |-> "init", status |-> 0]

AuthNext ==
    \/ api_request
    \/ unauthorized
    \/ routed(roles_post)
    \/ routed(roles_delete)
    \/ health

SpecAuth == AuthInit /\ [][AuthNext]_vars

\* the claim's "an API key is configured"
KeyConfigured == env.API_KEY # "" /\ Lower(env.ENABLE_API_KEY) # "false"

tick ==
    /\ now < MaxNow
    /\ now' = now + 1
    /\ UNCHANGED <<userVars, normVars, clinicVars, env, hdr, inflight, proc, resp>>

PacNext ==
    \/ tick
    \/ pacientes_post({"ana", "LUIS"})
    \/ pacientes_delete

SpecPac == ClinicInit /\ [][PacNext]_vars

\* a patient document without updatedAt
PacienteFields(x) == [_id |-> x._id, nombres |-> x.nombres, createdAt |-> x.createdAt]

\* C17: when an accepted POST /pacientes is followed, at any later time, by a
\* POST of the same payload with the patient still stored, the second request
\* answers 200, leaves one document for that _id and changes no patient field
\* other than updatedAt (createdAt included); a POST answers 201 exactly when
\* no document had that _id.  (A step that changes neither the patients nor
\* the last response is the clock, not a request.)
C17_UpsertIdempotent ==
    [][(resp'.op = "pacientes_post" /\ resp'.status < 400
            /\ <<pacientes, resp>>' # <<pacientes, resp>>) =>
        LET before == {x \in pacientes : x._id = resp'.req._id}
            after  == {x \in pacientes' : x._id = resp'.req._id}
        IN  /\ Cardinality(after) = 1
            /\ (resp'.status = 201) <=> (before = {})
            /\ (resp.op = "pacientes_post" /\ resp.status < 400 /\ resp.req = resp'.req)
                => /\ resp'.status = 200
                   /\ {PacienteFields(x) : x \in pacientes'}
                        = {PacienteFields(x) : x \in pacientes}]_vars

\* the same payload was sent again after the clock moved: answered 200, the
\* stored name normalised, createdAt still the time of the insert
C17_Witness ==
    /\ resp.op = "pacientes_post" /\ resp.status = 200 /\ resp.req.nombres = "LUIS"
    /\ \E x \in pacientes : /\ x._id = resp.req._id
                            /\ x.nombres = "Luis"
                            /\ x.createdAt = 0 /\ x.updatedAt = MaxNow

(***************************************************************************)
(* Specification SpecConc: the handlers of one history's array run         *)
(* concurrently.  Every awaited store call is one step; between its steps  *)
(* a PATCH or DELETE .../procedimientos/:index waits in `inflight` with    *)
(* what it read.                                                           *)
(***************************************************************************)
\* the smallest free slot for a suspended handler
FreeRid == {r \in 1..MaxInflight : (\A q \in inflight : q.rid # r)
                /\ \A r2 \in 1..(r - 1) : \E q \in inflight : q.rid = r2}

ArrOf(hid) == TheOne({h \in historias : h._id = hid}).procedimientos_realizados

\* updateOne({_id: h._id}, ...) leaving arr in the history's array
WriteArr(hid, arr) ==
    {IF h._id = hid THEN [h EXCEPT !.procedimientos_realizados = arr] ELSE h : h \in historias}

\* the findOne of PATCH and of DELETE .../procedimientos/:index, up to the
\* next await; kind is "patch" or "delete", Patches the bodies of a patch
index_findOne(kind, Patches) ==
    \E pid \in PacienteIds, idx \in 0..(MaxLen - 1), pt \in Patches :
        LET hit == HistoriaOf(historias, pid)
            arr == TheOne(hit).procedimientos_realizados
            curr == ElemAt(arr, idx)
            merged == MergeProc(curr, pt)
        IN  /\ FreeRid # {}
            /\ IF hit = {} \/ Missing(arr, idx)
               THEN /\ inflight' = inflight
                    /\ resp' = [op |-> kind, status |-> 404]
               ELSE /\ inflight' = inflight \cup
                        {[rid |-> TheOne(FreeRid), kind |-> kind,
                          pc |-> IF kind = "patch" THEN "set" ELSE "unset",
                          hid |-> TheOne(hit)._id, idx |-> idx, body |-> pt,
                          item |-> IF kind = "patch" THEN merged ELSE curr]}
                    /\ resp' = [op |-> kind, status |-> 0]
            /\ UNCHANGED <<userVars, normVars, clinicVars, env, hdr, now, proc>>

\* PATCH: updateOne({_id}, {$set: {"procedimientos_realizados.<idx>": merged}})
\* and the 200 answer; with keep, the answered request stays on record
patch_updateOne(keep) ==
    \E q \in inflight :
        /\ q.kind = "patch" /\ q.pc = "set"
        /\ historias' = WriteArr(q.hid, SetAt(ArrOf(q.hid), q.idx, q.item))
        /\ inflight' = (inflight \ {q}) \cup
                            (IF keep THEN {[q EXCEPT !.pc = "done"]} ELSE {})
        /\ resp' = [op |-> "patch", status |-> 200]
        /\ UNCHANGED <<userVars, normVars, citaVars, gateVars, nextHistoria, labVars,
                       env, hdr, now, proc>>

\* DELETE, first write: $unset of the index
delete_unset ==
    \E q \in inflight :
        /\ q.kind = "delete" /\ q.pc = "unset"
        /\ historias' = WriteArr(q.hid, UnsetAt(ArrOf(q.hid), q.idx))
        /\ inflight' = (inflight \ {q}) \cup {[q EXCEPT !.pc = "pull"]}
        /\ resp' = [op |-> "delete", status |-> 0]
        /\ UNCHANGED <<userVars, normVars, citaVars, gateVars, nextHistoria, labVars,
                       env, hdr, now, proc>>

\* DELETE, second write: $pull of null
delete_pull ==
    \E q \in inflight :
        /\ q.kind = "delete" /\ q.pc = "pull"
        /\ historias' = WriteArr(q.hid, PullNull(ArrOf(q.hid)))
        /\ inflight' = inflight \ {q}
        /\ resp' = [op |-> "delete", status |-> 200]
        /\ UNCHANGED <<userVars, normVars, citaVars, gateVars, nextHistoria, labVars,
                       env, hdr, now, proc>>

PatchBien   == [tratamiento |-> "", resultado |-> "bien"]
PatchCorona == [tratamiento |-> "Corona", resultado |-> ""]

\* one history of two items, as two POST /api/historias leave it
ConcInit ==
    /\ roles = SeededRoles
    /\ usuarios = {}
    /\ nextRol = NumSeed + 1
    /\ nextUsuario = 1
    /\ nrIn = NoPayload
    /\ nrOut = NoPayload
    /\ citas = {} /\ nextCita = 1
    /\ pacientes = {}
    /\ procedimientos = {} /\ nextProc = 1
    /\ historias = {[_id |-> 1, paciente_id |-> "p1",
                     procedimientos_realizados |-> <<TrA, TrB>>]}
    /\ nextHistoria = 2
    /\ ordenes = {} /\ nextOrden = 1
    /\ RunInit
    /\ resp = [op |-> "init"]

ConcNext ==
    \/ historias_post
    \/ index_findOne("patch", {PatchBien})
    \/ patch_updateOne(FALSE)
    \/ index_findOne("delete", {PatchBien})
    \/ delete_unset
    \/ delete_pull

SpecConc == ConcInit /\ [][ConcNext]_vars

\* a delete-by-index has blanked its index and not yet compacted
DeleteWindow == \E q \in inflight : q.kind = "delete" /\ q.pc = "pull"

\* C19: whenever no delete-by-index is between its blank step and its compact
\* step, no array holds a null placeholder.
C19_NoNullOutsideWindow ==
    ~DeleteWindow => \A h \in historias : NoNulls(h.procedimientos_realizados)

\* C20: the blank step of a delete-by-index blanks the element the request
\* found at its index -- possibly merge-patched since, which leaves its
\* tratamiento -- or an index already blank; it never blanks another element
\* (which its compact step would then remove).
C20_DeleteOnlyAddressed ==
    [][\A q \in inflight :
          (q.kind = "delete" /\ q.pc = "unset" /\ q \notin inflight')
          => LET e == ElemAt(ArrOf(q.hid), q.idx)
             IN  e = Null \/ e.tratamiento = q.item.tratamiento]_vars

(***************************************************************************)
(* normalizeRole with one field, or with an identifier that does not       *)
(* resolve (checked in SpecNormalize)                                      *)
(***************************************************************************)
\* C25: with at most one of rol and rol_id present, normalizeRole returns the
\* supplied fields unchanged; with neither it returns the payload as it is;
\* with only rol_id it sets rol to the catalog name of that id when the id
\* resolves and leaves rol unset otherwise; with only rol it sets rol_id to the
\* id of the catalog entry of that name when the name is enumerated and such an
\* entry exists, and leaves rol_id unset otherwise.
C25_OneFieldPresent ==
    (resp.op = "normalizeRole" /\ (nrIn.rol = "" \/ nrIn.rol_id.t = "none")) =>
        /\ nrOut.nombres = nrIn.nombres
        /\ nrIn.rol # "" => nrOut.rol = nrIn.rol
        /\ nrIn.rol_id.t # "none" => nrOut.rol_id = nrIn.rol_id
        /\ (nrIn.rol = "" /\ nrIn.rol_id.t = "none") => nrOut = nrIn
        /\ (nrIn.rol = "" /\ nrIn.rol_id.t # "none") =>
              IF \E r \in roles : r._id = parseOid(nrIn.rol_id)
              THEN \E r \in roles : r._id = parseOid(nrIn.rol_id) /\ nrOut.rol = r.nombre
              ELSE nrOut.rol = ""
        /\ (nrIn.rol # "" /\ nrIn.rol_id.t = "none") =>
              IF nrIn.rol \in RolEnum /\ \E r \in roles : r.nombre = nrIn.rol
              THEN \E r \in roles : r.nombre = nrIn.rol /\ nrOut.rol_id = ObjId(r._id)
              ELSE nrOut.rol_id = NoId

\* an identifier sent alone resolved and the name was filled in
C25_Witness ==
    /\ resp.op = "normalizeRole"
    /\ nrIn.rol = "" /\ nrIn.rol_id = StrId(3)
    /\ nrOut.rol = "Asistente" /\ nrOut.rol_id = StrId(3)
    /\ Cardinality(roles) = 2

\* C26: with rol and rol_id both present and rol_id not resolving (malformed
\* or of no catalog entry), rol is returned unchanged; rol_id becomes the id of
\* the catalog entry named rol when rol is enumerated and such an entry exists,
\* and is otherwise returned as supplied.
C26_FallbackByName ==
    (resp.op = "normalizeRole" /\ nrIn.rol # "" /\ nrIn.rol_id.t # "none"
        /\ ~\E r \in roles : r._id = parseOid(nrIn.rol_id)) =>
        /\ nrOut.rol = nrIn.rol
        /\ nrOut.nombres = nrIn.nombres
        /\ IF nrIn.rol \in RolEnum /\ \E r \in roles : r.nombre = nrIn.rol
           THEN \E r \in roles : r.nombre = nrIn.rol /\ nrOut.rol_id = ObjId(r._id)
           ELSE nrOut.rol_id = nrIn.rol_id

\* a malformed identifier sent with a stored name was replaced by that
\* entry's identifier
C26_Witness ==
    /\ resp.op = "normalizeRole"
    /\ nrIn.rol = "Odontologo" /\ nrIn.rol_id = BadId
    /\ nrOut.rol = "Odontologo" /\ nrOut.rol_id = ObjId(2)

(***************************************************************************)
(* The delete gate of the role catalog, run with no request interleaved    *)
(* (each handler of SpecUsers is one step)                                 *)
(***************************************************************************)
\* C24: a DELETE /api/roles/:id that runs with no request between its counts
\* and its deleteOne and reports success removes no role that a stored user
\* designates by rol_id at that moment.
C24_GatedDeleteKeepsReferenced ==
    [][(resp'.op = "roles_delete" /\ resp'.status = 200)
        => \A u \in usuarios : parseOid(u.rol_id) # oidMaybe(resp'.id)]_vars

(***************************************************************************)
(* Lab orders and histories: delete beyond the end, and bodies with more   *)
(* than one array operation (checked in SpecArr)                           *)
(***************************************************************************)
\* C27: a delete-by-index at an index at or beyond the array's length changes
\* no array element: on a stored lab order it answers 200 and leaves productos
\* as they were; on a stored history it answers 404 "Indice fuera de rango"
\* and writes nothing.
C27_DeleteBeyondEnd ==
    [][/\ \A o \in ordenes :
            (/\ resp'.op = "ordenes_patch"
             /\ oidMaybe(resp'.req.id) = o._id
             /\ OrdenLabPatch(resp'.req.body)
             /\ ~resp'.req.body.set_productos.present
             /\ ~resp'.req.body.push_productos.present
             /\ ~resp'.req.body.producto_patch.present
             /\ resp'.req.body.producto_delete_index.present
             /\ resp'.req.body.producto_delete_index.v >= Len(o.productos))
            => /\ resp'.status = 200
               /\ \E o2 \in ordenes' : o2._id = o._id /\ o2.productos = o.productos
               /\ Cardinality(ordenes') = Cardinality(ordenes)
       /\ \A h \in historias :
            (/\ resp'.op = "historias_delete"
             /\ resp'.req.paciente_id = h.paciente_id
             /\ resp'.req.index >= Len(h.procedimientos_realizados))
            => /\ resp'.status = 404 /\ resp'.error = "Indice fuera de rango"
               /\ UNCHANGED <<userVars, clinicVars>>]_vars

\* a delete beyond the end of a stored order's three productos was answered
\* 200 and the three are still there
C27_Witness ==
    /\ resp.op = "ordenes_patch" /\ resp.status = 200
    /\ resp.req.body.producto_delete_index.present
    /\ ~resp.req.body.producto_patch.present
    /\ \E o \in ordenes : /\ o._id = oidMaybe(resp.req.id)
                          /\ Len(o.productos) = MaxLen
                          /\ resp.req.body.producto_delete_index.v >= MaxLen
                          /\ o.estado = "Entregada"

\* the array operations a body carries
ArrayOps(b) ==
    (IF b.set_productos.present THEN 1 ELSE 0) + (IF b.push_productos.present THEN 1 ELSE 0)
    + (IF b.producto_patch.present THEN 1 ELSE 0)
    + (IF b.producto_delete_index.present THEN 1 ELSE 0)

\* C28: a PATCH of a stored lab order whose body carries more than one array
\* operation and is answered 200 leaves productos as the first operation in
\* the order set_productos, push_productos, producto_patch,
\* producto_delete_index alone defines, and writes the body's estado and
\* observaciones with it.
C28_OneOperationByPriority ==
    [][\A o \in ordenes :
          (/\ resp'.op = "ordenes_patch" /\ resp'.status = 200
           /\ oidMaybe(resp'.req.id) = o._id
           /\ ArrayOps(resp'.req.body) > 1)
          => LET b == resp'.req.body
                 expected ==
                    IF b.set_productos.present THEN MapProductos(b.set_productos.v)
                    ELSE IF b.push_productos.present
                    THEN o.productos \o MapProductos(b.push_productos.v)
                    ELSE SetAt(o.productos, b.producto_patch.index,
                               MergeProducto(ElemAt(o.productos, b.producto_patch.index),
                                             b.producto_patch.item))
             IN  \E o2 \in ordenes' :
                    /\ o2._id = o._id
                    /\ o2.productos = expected
                    /\ b.estado # "" => o2.estado = b.estado
                    /\ b.observaciones.present
                          => o2.observaciones = normalizeObservaciones(b.observaciones.v)]_vars

\* a body with set_productos, push_productos and producto_delete_index was
\* answered 200 and the order holds exactly the set_productos item
C28_Witness ==
    /\ resp.op = "ordenes_patch" /\ resp.status = 200
    /\ resp.req.body.set_productos.present /\ resp.req.body.push_productos.present
    /\ resp.req.body.producto_delete_index.present
    /\ resp.req.body.estado = "Entregada"
    /\ \E o \in ordenes : /\ o._id = oidMaybe(resp.req.id)
                          /\ o.productos = MapProductos(resp.req.body.set_productos.v)
                          /\ o.estado = "Entregada"

(***************************************************************************)
(* Specification SpecQuery: appointments written by POST and PATCH /citas, *)
(* listed by GET /api/citas, and the procedure-type gate over them         *)
(***************************************************************************)
\* {$match: {usuario_id: String(usuario_id)}}: the store compares type and
\* value, so a string matches only a stored string
MatchUsuarioId(c, u) == c.usuario_id = u

\* GET /api/citas?usuario_id= (NoId is an absent parameter; the other filters,
\* paging and the patient lookup are not modelled)
citas_get ==
    \E u \in {NoId, BadId, StrId(1), StrId(2)} :
        LET data == {c \in citas : u.t = "none" \/ MatchUsuarioId(c, u)}
        IN  /\ resp' = IF u.t # "none" /\ oidMaybe(u) = 0
                       THEN [op |-> "citas_get", status |-> 400, usuario_id |-> u,
                             data |-> {}, total |-> 0]
                       ELSE [op |-> "citas_get", status |-> 200, usuario_id |-> u,
                             data |-> {c._id : c \in data}, total |-> Cardinality(data)]
            /\ UNCHANGED <<userVars, normVars, clinicVars, runVars>>

QueryCitaBodies ==
    [paciente_id : {"p1"}, usuario_id : {StrId(1), StrId(2)},
     procedimientos : {AbsentList, Given(<<ItWithRef>>), Given(<<ItLimpieza, ItResina>>)},
     total : {Absent}]

QueryPatchBodies ==
    [paciente_id : {""}, usuario_id : {NoId, StrId(2)},
     procedimientos : {AbsentList, Given(<<ItWithRef>>)}, total : {Absent}]

QueryNext ==
    \/ citas_post(QueryCitaBodies)
    \/ citas_patch(QueryPatchBodies)
    \/ citas_get
    \/ procedimientos_post
    \/ procedimientos_delete

SpecQuery == ClinicInit /\ [][QueryNext]_vars

\* C29: no appointment written by POST /citas or PATCH /citas/:id stores a
\* procedimiento_id in a line item, and DELETE /procedimientos/:id, whose
\* reference count over these appointments is zero, never answers 409.
C29_NoStoredProcRef ==
    [][/\ \A c \in citas' : \A i \in 1..Len(c.procedimientos) :
              c.procedimientos[i].procedimiento_id = NoId
       /\ resp'.op = "procedimientos_delete"
              => (resp'.refs = 0 /\ resp'.status # 409)]_vars

\* a stored procedure type was deleted without force while an appointment
\* whose body named it in a line item was stored
C29_Witness ==
    /\ resp.op = "procedimientos_delete" /\ resp.status = 200 /\ resp.force = ""
    /\ oidMaybe(resp.id) = 1
    /\ \E c \in citas : Len(c.procedimientos) = 1 /\ c.procedimientos[1].nombre = "Limpieza"

\* C30: GET /citas?usuario_id=U answers with exactly the stored appointments
\* whose usuario_id designates user U, and total is their number.
C30_ListByUsuario ==
    [][(resp'.op = "citas_get" /\ resp'.status = 200 /\ resp'.usuario_id.t = "str")
        => LET want == {c \in citas : oidMaybe(c.usuario_id) = oidMaybe(resp'.usuario_id)}
           IN  /\ resp'.data = {c._id : c \in want}
               /\ resp'.total = Cardinality(want)]_vars

(***************************************************************************)
(* Specification SpecBoot: lib/mongo.js connect() called by concurrent     *)
(* handlers of a freshly started process, one step per await               *)
(***************************************************************************)
\* calls of connect() a behaviour makes
MaxCalls == 4

\* module state at process start: let client; let db;
Fresh == [db |-> FALSE, clients |-> 0, provisions |-> 0, calls |-> 0,
          uq_roles_nombre |-> FALSE]

HasName(cat, nom) == \E r \in cat : r.nombre = nom

\* col.insertMany(docs), ordered: the documents are inserted in order and the
\* first one the unique index rejects (E11000) ends the operation; the number
\* of documents stored
insertMany(cat, uq) ==
    IF ~uq THEN NumSeed
    ELSE CHOOSE k \in 0..NumSeed :
            /\ \A i \in 1..k : ~HasName(cat, ROLE_NAMES[i])
            /\ k < NumSeed => HasName(cat, ROLE_NAMES[k + 1])

Returned(r, ok) == [op |-> "connect_return", rid |-> r, ok |-> ok]
Suspended(q, pc) == [op |-> "connect_await", rid |-> q.rid, pc |-> pc]
MoveTo(q, pc) == (inflight \ {q}) \cup {[q EXCEPT !.pc = pc]}

\* connect() up to its first await: if (db) return db; client = new
\* MongoClient(uri); await client.connect()   (MONGODB_URI is set)
connect_enter ==
    /\ proc.calls < MaxCalls
    /\ \E r \in FreeRid :
        IF proc.db
        THEN /\ proc' = [proc EXCEPT !.calls = @ + 1]
             /\ resp' = Returned(r, TRUE)
             /\ UNCHANGED inflight
        ELSE /\ proc' = [proc EXCEPT !.calls = @ + 1, !.clients = @ + 1]
             /\ inflight' = inflight \cup {[rid |-> r, kind |-> "connect", pc |-> "client.connect"]}
             /\ resp' = [op |-> "connect_await", rid |-> r, pc |-> "client.connect"]
    /\ UNCHANGED <<userVars, normVars, clinicVars, env, hdr, now>>

\* client.connect() resolves: db = client.db(...); SKIP_INDEX_SEED is unset,
\* so ensureBaseIndexes(db) starts and suspends at its first createIndex
client_connect ==
    \E q \in inflight :
        /\ q.kind = "connect" /\ q.pc = "client.connect"
        /\ proc' = [proc EXCEPT !.db = TRUE, !.provisions = @ + 1]
        /\ inflight' = MoveTo(q, "createIndex")
        /\ resp' = Suspended(q, "createIndex")
        /\ UNCHANGED <<userVars, normVars, clinicVars, env, hdr, now>>

\* ensureBaseIndexes: createIndexSafe tolerates an index that already exists;
\* building uq_roles_nombre over duplicate names fails with a duplicate-key
\* error it rethrows. Then ensureRolesSeed suspends at estimatedDocumentCount
ensureBaseIndexes ==
    \E q \in inflight :
        /\ q.kind = "connect" /\ q.pc = "createIndex"
        /\ IF ~proc.uq_roles_nombre
              /\ \E a, b \in roles : a._id # b._id /\ a.nombre = b.nombre
           THEN /\ inflight' = inflight \ {q}
                /\ resp' = Returned(q.rid, FALSE)
                /\ UNCHANGED proc
           ELSE /\ proc' = [proc EXCEPT !.uq_roles_nombre = TRUE]
                /\ inflight' = MoveTo(q, "count")
                /\ resp' = Suspended(q, "count")
        /\ UNCHANGED <<userVars, normVars, clinicVars, env, hdr, now>>

\* ensureRolesSeed: count = await col.estimatedDocumentCount();
\* if (count > 0) return;  -- and connect() returns db
seed_count ==
    \E q \in inflight :
        /\ q.kind = "connect" /\ q.pc = "count"
        /\ IF Cardinality(roles) > 0
           THEN /\ inflight' = inflight \ {q}
                /\ resp' = Returned(q.rid, TRUE)
           ELSE /\ inflight' = MoveTo(q, "insertMany")
                /\ resp' = Suspended(q, "insertMany")
        /\ UNCHANGED <<userVars, normVars, clinicVars, env, hdr, now, proc>>

\* ensureRolesSeed: await col.insertMany(docs); a rejected insert rejects
\* connect()
seed_insertMany ==
    \E q \in inflight :
        /\ q.kind = "connect" /\ q.pc = "insertMany"
        /\ LET k == insertMany(roles, proc.uq_roles_nombre)
           IN  /\ roles' = roles \cup {d \in SeedDocs(nextRol - 1) : d._id < nextRol + k}
               /\ nextRol' = nextRol + k
               /\ resp' = Returned(q.rid, k = NumSeed)
        /\ inflight' = inflight \ {q}
        /\ UNCHANGED <<usuarios, nextUsuario, normVars, clinicVars, env, hdr, now, proc>>

\* a process starts on a clean store or on one an earlier run seeded
BootInit ==
    /\ \/ roles = {} /\ nextRol = 1
       \/ roles = SeededRoles /\ nextRol = NumSeed + 1
    /\ usuarios = {} /\ nextUsuario = 1
    /\ nrIn = NoPayload /\ nrOut = NoPayload
    /\ citas = {} /\ nextCita = 1
    /\ pacientes = {}
    /\ procedimientos = {} /\ nextProc = 1
    /\ historias = {} /\ nextHistoria = 1
    /\ ordenes = {} /\ nextOrden = 1
    /\ env = [API_KEY |-> "", ENABLE_API_KEY |-> ""] /\ hdr = "" /\ now = 0
    /\ inflight = {} /\ proc = Fresh
    /\ resp = [op |-> "init"]

BootNext ==
    \/ connect_enter
    \/ client_connect
    \/ ensureBaseIndexes
    \/ seed_count
    \/ seed_insertMany


SpecBoot == BootInit /\ [][BootNext]_vars

\* C21: whenever a call of connect() returns, it returns successfully, the
\* indexes are provisioned and the roles collection holds each enumerated
\* role name exactly once.
C21_ConnectReturnsSeeded ==
    [][(resp'.op = "connect_return" /\ <<proc, inflight>>' # <<proc, inflight>>)
        => /\ resp'.ok
           /\ proc'.uq_roles_nombre
           /\ \A i \in 1..NumSeed :
                  Cardinality({r \in roles' : r.nombre = ROLE_NAMES[i]}) = 1]_vars

\* C22: within one process the store client is constructed at most once and
\* index provisioning plus seeding are started at most once.
C22_SingleInitialization == proc.clients <= 1 /\ proc.provisions <= 1

(***************************************************************************)
(* Specification SpecRace: concurrent merge-patches of history items, the  *)
(* answered requests kept on record                                        *)
(***************************************************************************)
RaceNext ==
    \/ historias_post
    \/ index_findOne("patch", {PatchBien, PatchCorona})
    \/ patch_updateOne(TRUE)

SpecRace == ConcInit /\ [][RaceNext]_vars

Answered(hid, idx) ==
    {q \in inflight : q.kind = "patch" /\ q.pc = "done" /\ q.hid = hid /\ q.idx = idx}

\* C23: merge-patches read and write in separate steps; once patches at an
\* index have been answered, the stored element equals the merged value one
\* of them wrote (the last writer's, possibly built from a stale read).
C23_ElementIsSomeWritersMerge ==
    \A q \in inflight :
        (q.kind = "patch" /\ q.pc = "done")
        => \E d \in Answered(q.hid, q.idx) : ElemAt(ArrOf(q.hid), q.idx) = d.item

\* lost update: two answered patches at one index, the stored element is the
\* later writer's merge and lacks the resultado the earlier writer set
C23_Witness ==
    \E q1, q2 \in inflight :
        /\ q1 \in Answered(q2.hid, q2.idx) /\ q2 \in Answered(q1.hid, q1.idx)
        /\ q1.body = PatchBien /\ q2.body = PatchCorona
        /\ ElemAt(ArrOf(q2.hid), q2.idx) = q2.item
        /\ q2.item.resultado # "bien"
        /\ resp = [op |-> "patch", status |-> 200]

====
